---- MODULE Spec2Model ----
(***************************************************************************)
(* CollabCX (collab.py): one owner serving a directory tree over HTTP and  *)
(* one collaborator mirroring it.  The model holds both trees, both digest *)
(* caches (file_hashes), both sync_in_progress flags, the watchdog event   *)
(* queues, the position of the collaborator's watcher callback and of its  *)
(* sync_client_files thread, and the requests the collaborator has sent.   *)
(***************************************************************************)
EXTENDS Integers, Sequences, FiniteSets, TLC

VARIABLES
    fs,               \* node -> (path -> entry): the tree under collaboration_path
    file_hashes,      \* node -> (path -> cache value): self.file_hashes
    sync_in_progress, \* node -> BOOLEAN: self.sync_in_progress
    evq,              \* node -> sequence of watchdog events not yet dispatched
    phase,            \* collaborator: "joining", "running", "failed"
    wpc,              \* collaborator's watcher callback: position and pending request
    spc,              \* sync_client_files thread: position in the cycle
    server_structure, \* the get_structure response held by the cycle
    local_scan,       \* the scan_files result held by the cycle
    todo,             \* server files the cycle has not yet looked at
    cur,              \* the file download_file has written but not yet hashed
    stop_server_event,\* self.stop_server_event of the collaborator
    sent,             \* history: requests the collaborator's watcher has sent
    cycle,            \* history: completed reconcile cycles
    userLog,          \* history: edits made by users, in order
    calm,             \* history: cycles completed since the last outside change
    dirty,            \* history: an outside change happened since the last cycle end
    thisCycle,        \* history: the running cycle wrote the local tree / had a download_file that did not complete
    lastWatch,        \* history: the last on_file_modified / on_file_deleted outcome
    unavail,          \* history: comparisons that involved an unavailable digest
    lastReq,          \* history: the last request handled by the owner
    rmRemovals,       \* history: cache entries removed because of deletions
    ops,              \* history: operations performed on the owner
    joinedEmpty,      \* history: the collaborator joined with an empty directory
    server_url,       \* collaborator: self.server_url
    collaboration_path, \* collaborator: self.collaboration_path
    rootMade,         \* the collaborator's directory collaboration_path exists
    joinLog,          \* history: the /verify outcomes of join_collaboration calls
    fetchFails,       \* history: get_structure fetches of the reconcile loop that failed
    lock,             \* owner: the holder of self.lock
    chat_history,     \* owner: self.chat_history (number of messages)
    hpc,              \* owner: upload handlers between opening and writing their file
    seen,             \* history: what readers of a file under write observed
    access,           \* history: accesses to sync_in_progress / file_hashes, with the lock's holder
    moveSent,         \* history: the requests sent by moved-event handlers, in order
    trio,             \* one owner and two collaborators: trees, caches, flags, threads
    outer             \* owner: the root directory itself and what lies outside it

vars == <<fs, file_hashes, sync_in_progress, evq, phase, wpc, spc,
          server_structure, local_scan, todo, cur, stop_server_event,
          sent, cycle, userLog, calm, dirty, thisCycle, lastWatch, unavail,
          lastReq, rmRemovals, ops, joinedEmpty, server_url, collaboration_path,
          rootMade, joinLog, fetchFails, lock, chat_history, hpc, seen, access,
          moveSent, trio, outer>>

\* ------------------------------------------------------------------ bounds
MaxByte == 2
MaxCycles == 2
MaxEdits == 2
MaxOps == 2
MaxFails == 2
MaxJoins == 2
MaxMoves == 1

\* ------------------------------------------------------------------ paths
Nodes == {"owner", "collab"}
Root == ""
Paths ==
    {"a.txt", "verify", "sub", "sub/b.txt", ".git", ".git/c", "sub/.env",
     "new", "new/b.txt"}
\* Names a user makes directories of; every path may be a regular file.
DirNames == {"sub"}
Parent(p) ==
    IF p \in {"sub/b.txt", "sub/.env"} THEN "sub"
    ELSE IF p = ".git/c" THEN ".git"
    ELSE IF p = "new/b.txt" THEN "new"
    ELSE Root
\* rel_path.startswith('.'): the first character of the relative path
RelHidden(p) == p \in {".git", ".git/c"}
\* Paths with a component whose name starts with a dot.
Dotted == {".git", ".git/c", "sub/.env"}
\* The paths the session specifications put files and directories at.
\* The paths nothing is at until a move puts it there.
Spare == {"new", "new/b.txt"}
Plain == Paths \ (Dotted \cup Spare)
\* Root-level names that Flask resolves to a JSON-answering GET route
\* before the catch-all /<path:filename> (of verify, get_structure, chat
\* only verify is in the universe).
RouteNames == {"verify"}
Bytes == 1..MaxByte
\* The body of the /verify answer: bytes no file of the universe holds.
VerifyBody == 99

RECURSIVE Under(_, _)
\* key.startswith(filename + os.sep) / the subtree shutil.rmtree removes
Under(q, p) ==
    /\ q # Root
    /\ \/ Parent(q) = p
       \/ Under(Parent(q), p)

\* ------------------------------------------------------------------ trees
NoEnt == [kind |-> "none", data |-> 0, ok |-> TRUE]
DirEnt == [kind |-> "dir", data |-> 0, ok |-> TRUE]
FileEnt(b) == [kind |-> "file", data |-> b, ok |-> TRUE]
\* A file the process may neither read nor write (mode 000).
LockedEnt(b) == [kind |-> "file", data |-> b, ok |-> FALSE]
EmptyTree == [p \in Paths |-> NoEnt]

Exists(t, p) == IF p = Root THEN TRUE ELSE t[p].kind # "none"
IsDir(t, p) == IF p = Root THEN TRUE ELSE t[p].kind = "dir"
IsFile(t, p) == IF p = Root THEN FALSE ELSE t[p].kind = "file"
WellFormed(t) == \A p \in Paths : Exists(t, p) => IsDir(t, Parent(p))

RECURSIVE MakeDirs(_, _)
\* os.makedirs(path, exist_ok=True): ok is FALSE when it raises
MakeDirs(t, p) ==
    IF p = Root THEN [ok |-> TRUE, t |-> t]
    ELSE LET up == IF Exists(t, Parent(p)) THEN [ok |-> TRUE, t |-> t]
                   ELSE MakeDirs(t, Parent(p))
         IN  IF ~up.ok \/ ~IsDir(up.t, Parent(p)) THEN [ok |-> FALSE, t |-> up.t]
             ELSE IF up.t[p].kind = "dir" THEN [ok |-> TRUE, t |-> up.t]
             ELSE IF up.t[p].kind = "file" THEN [ok |-> FALSE, t |-> up.t]
             ELSE [ok |-> TRUE, t |-> [up.t EXCEPT ![p] = DirEnt]]

\* shutil.rmtree(path) of a directory
RmTree(t, p) == [q \in Paths |-> IF q = p \/ Under(q, p) THEN NoEnt ELSE t[q]]

\* ---------------------------------------------------------------- digests
\* hashlib.md5(bytes).hexdigest() as a number; 0 stands for None.
Md5(b) == 7 * b + 3
Absent == [kind |-> "absent", h |-> 0, size |-> 0]
None == [kind |-> "None", h |-> 0, size |-> 0]
HashStr(h) == [kind |-> "str", h |-> h, size |-> 0]
\* One files_info value of scan_files: {'hash', 'size', 'mtime'} (no mtime).
InfoDict(h, n) == [kind |-> "dict", h |-> h, size |-> n]
EmptyCache == [p \in Paths |-> Absent]

get_file_hash(t, p) ==
    IF IsFile(t, p) /\ t[p].ok THEN HashStr(Md5(t[p].data)) ELSE None

\* dict.get(key): None for a missing key
CacheGet(c, p) == IF c[p].kind = "absent" THEN None ELSE c[p]

scan_files(t) ==
    [files |-> [p \in Paths |->
                  IF IsFile(t, p) /\ ~RelHidden(p)
                  THEN InfoDict(get_file_hash(t, p).h, t[p].data)
                  ELSE Absent],
     dirs |-> {p \in Paths : t[p].kind = "dir" /\ ~RelHidden(p)}]
FileKeys(s) == {p \in Paths : s.files[p].kind # "absent"}
EmptyScan == [files |-> EmptyCache, dirs |-> {}]

\* ----------------------------------------------------------------- events
Event(type, p, isdir, cause, cyc) ==
    [type |-> type, path |-> p, isdir |-> isdir, cause |-> cause, cyc |-> cyc,
     dest |-> Root, id |-> 0]
\* A moved event: src_path, dest_path; id numbers the move it reports.
MovedEvent(src, dest, isdir, cyc, id) ==
    [type |-> "moved", path |-> src, isdir |-> isdir, cause |-> "user", cyc |-> cyc,
     dest |-> dest, id |-> id]

RECURSIVE SetToSeq(_)
\* The paths of S in an order that lists every path before its ancestors.
SetToSeq(S) ==
    IF S = {} THEN <<>>
    ELSE LET x == CHOOSE y \in S : \A z \in S : ~Under(y, z)
         IN  SetToSeq(S \ {x}) \o <<x>>

\* The events inotify reports for a change of tree t into t2: removals
\* (children before their directory), then new directories (parents first).
TreeEvents(t, t2, cause, cyc) ==
    LET gone == {p \in Paths : Exists(t, p) /\ t2[p].kind # t[p].kind}
        sq == SetToSeq(gone)
        del == [i \in 1..Len(sq) |->
                  Event("deleted", sq[i], t[sq[i]].kind = "dir", cause, cyc)]
        newd == {p \in Paths : t2[p].kind = "dir" /\ t[p].kind # "dir"}
        dq == SetToSeq(newd)
        mk == [i \in 1..Len(dq) |->
                 Event("created", dq[Len(dq) + 1 - i], TRUE, cause, cyc)]
    IN  del \o mk

FileEvent(t, p, cause, cyc) ==
    <<Event(IF IsFile(t, p) THEN "modified" ELSE "created", p, FALSE, cause, cyc)>>

\* ---------------------------------------------------- owner's HTTP handlers
Request(kind, p, b) == [kind |-> kind, path |-> p, data |-> b]
NoReq == Request("none", Root, 0)
Requests ==
    {Request("upload", p, b) : p \in Plain, b \in Bytes}
      \cup {Request("mkdir", p, 0) : p \in Plain}
      \cup {Request("delete", p, 0) : p \in Plain}

\* file.save(full_path) / open(full_path, "wb"): raises on a directory and
\* on a file the process may not write.
CanWrite(t, p) == t[p].kind \in {"none", "file"} /\ t[p].ok

\* POST /upload_file
OwnerUpload(t, c, p, b) ==
    LET md == MakeDirs(t, Parent(p))
    IN  IF ~md.ok \/ ~CanWrite(md.t, p)
        THEN [t |-> md.t, c |-> c, status |-> 500, removed |-> 0]
        ELSE LET t2 == [md.t EXCEPT ![p] = FileEnt(b)]
             IN  [t |-> t2, c |-> [c EXCEPT ![p] = get_file_hash(t2, p)],
                  status |-> 200, removed |-> 0]

\* create_directory calling os.makedirs without exist_ok=True
MkdirNoExistOk(t, c, p) ==
    LET md == MakeDirs(t, p)
    IN  [t |-> md.t, c |-> c, removed |-> 0,
         status |-> IF md.ok /\ ~Exists(t, p) THEN 200 ELSE 500]

\* POST /create_directory
OwnerMkdir(t, c, p) ==
    LET md == MakeDirs(t, p)
    IN  [t |-> md.t, c |-> c, status |-> IF md.ok THEN 200 ELSE 500, removed |-> 0]

\* POST /delete_file
OwnerDelete(t, c, p) ==
    IF ~Exists(t, p) THEN [t |-> t, c |-> c, status |-> 200, removed |-> 0]
    ELSE IF IsFile(t, p)
    THEN [t |-> [t EXCEPT ![p] = NoEnt], c |-> c, status |-> 200, removed |-> 0]
    ELSE LET keys == {k \in Paths : c[k].kind # "absent" /\ (Under(k, p) \/ k = p)}
         IN  [t |-> RmTree(t, p),
              c |-> [k \in Paths |-> IF k \in keys THEN Absent ELSE c[k]],
              status |-> 200, removed |-> Cardinality(keys)]

OwnerHandle(t, c, r) ==
    IF r.kind = "upload" THEN OwnerUpload(t, c, r.path, r.data)
    ELSE IF r.kind = "mkdir" THEN OwnerMkdir(t, c, r.path)
    ELSE OwnerDelete(t, c, r.path)

\* self.sync_in_progress when the handler returns
OwnerFlagAfter(flag, t, r) ==
    IF r.kind = "delete" /\ ~Exists(t, r.path) THEN flag ELSE FALSE

\* The events the owner's observer queues for a handler's change.
HandlerEvents(t, res, r) ==
    TreeEvents(t, res.t, "remote", 0)
      \o (IF r.kind = "upload" /\ res.status = 200
          THEN FileEvent(t, r.path, "remote", 0) ELSE <<>>)

\* GET /<path:filename>, as download_file sees it: the static routes win
\* over the catch-all, send_from_directory answers 404 for what it cannot
\* send.
HttpGet(t, p) ==
    IF p \in RouteNames THEN [status |-> 200, content |-> VerifyBody]
    ELSE IF IsFile(t, p) /\ t[p].ok THEN [status |-> 200, content |-> t[p].data]
    ELSE [status |-> 404, content |-> 0]

\* ------------------------------------------------------------- the watcher
\* The watcher's callback: the call it is about to make (req), the calls
\* its handler makes after that one (more), and for a moved-event handler
\* the number of the move (mv, else 0).
Idle == [st |-> "idle", req |-> NoReq, cause |-> "none", cyc |-> 0, more |-> <<>>, mv |-> 0]
Pending(kind, e) ==
    [st |-> "check", req |-> Request(kind, e.path, 0), cause |-> e.cause, cyc |-> e.cyc,
     more |-> <<>>, mv |-> 0]

\* on_file_moved with upload_file(dest) called before delete_file(src)
MoveCallsUploadFirst(e) ==
    IF e.isdir THEN <<Request("delete", e.path, 0), Request("mkdir", e.dest, 0),
                      Request("contents", e.dest, 0)>>
    ELSE <<Request("upload", e.dest, 0), Request("delete", e.path, 0)>>

\* on_file_moved: delete_file(src), time.sleep(0.5), upload_file(dest);
\* on_directory_moved: delete_file(src), upload_directory(dest),
\* upload_directory_contents(dest).
MoveCalls(e) ==
    IF e.isdir THEN <<Request("delete", e.path, 0), Request("mkdir", e.dest, 0),
                      Request("contents", e.dest, 0)>>
    ELSE <<Request("delete", e.path, 0), Request("upload", e.dest, 0)>>

PendingMove(e) ==
    [st |-> "check", req |-> Head(MoveCalls(e)), cause |-> e.cause, cyc |-> e.cyc,
     more |-> Tail(MoveCalls(e)), mv |-> e.id]

\* The callback once the call it was making has returned: the handler's
\* next call, or the end of the handler.
After(w) ==
    IF w.more = <<>> THEN Idle
    ELSE [w EXCEPT !.st = "check", !.req = Head(w.more), !.more = Tail(w.more)]

\* upload_directory_contents(d): os.walk of the directory as it is now,
\* upload_directory for the directories below it, upload_file for the
\* files (the universe has one level below a directory).
ContentsCalls(t, d) ==
    LET ds == SetToSeq({q \in Paths : Under(q, d) /\ IsDir(t, q)})
        fl == SetToSeq({q \in Paths : Under(q, d) /\ IsFile(t, q)})
    IN  [i \in 1..Len(ds) |-> Request("mkdir", ds[Len(ds) + 1 - i], 0)]
          \o [i \in 1..Len(fl) |-> Request("upload", fl[i], 0)]
NoWatch == [node |-> "none", path |-> Root, none |-> FALSE, same |-> FALSE,
            changed |-> FALSE, cacheTouched |-> FALSE]

\* The file's bytes are those the cache entry of p was recorded for.
SameBytes(t, c, p) ==
    /\ IsFile(t, p) /\ t[p].ok
    /\ c[p].kind \in {"str", "dict"}
    /\ c[p].h = Md5(t[p].data)

\* line 78 with a path that has no cache entry taken as unchanged
HashChangedIfKnown(current, known) ==
    current.kind # "None" /\ known.kind # "None" /\ current # known

\* on_file_modified, line 78: current_hash and current_hash != cached
HashChanged(current, known) == current.kind # "None" /\ current # known

\* on_file_modified: the cache after the event and whether the file is
\* treated as changed.
OnFileModified(t, c, p) ==
    LET current == get_file_hash(t, p)
        chg == ~RelHidden(p) /\ HashChanged(current, CacheGet(c, p))
    IN  [changed |-> chg,
         c |-> IF chg THEN [c EXCEPT ![p] = current] ELSE c,
         none |-> current.kind = "None"]

WatchRecord(n, t, c, p, out) ==
    [node |-> n, path |-> p, none |-> out.none, same |-> SameBytes(t, c, p),
     changed |-> out.changed, cacheTouched |-> out.c # c]

\* An outside change (a user's edit, a request changing the owner's tree)
Disturb ==
    /\ dirty' = TRUE
    /\ calm' = 0
Undisturbed == UNCHANGED <<dirty, calm>>

syncVars == <<spc, server_structure, local_scan, todo, cur, stop_server_event,
              cycle, thisCycle>>
ownerHist == <<lastReq, ops, joinedEmpty>>
\* What join_collaboration sets, and the state of the owner's Flask threads.
joinVars == <<server_url, collaboration_path, rootMade, joinLog>>
threadVars == <<lock, chat_history, hpc, seen, access>>
restVars == <<joinVars, threadVars, fetchFails, moveSent, trio, outer>>

\* FileWatcher.on_any_event on the collaborator: take the next event and
\* run its handler up to the call of upload_file / upload_directory /
\* delete_file (for a changed file: up to the end of time.sleep(0.5)).
WatchDispatch ==
    /\ phase = "running" /\ ~stop_server_event
    /\ wpc.st = "idle"
    /\ evq["collab"] # <<>>
    /\ LET e == Head(evq["collab"])
           t == fs["collab"]
           c == file_hashes["collab"]
           out == OnFileModified(t, c, e.path)
       IN  /\ evq' = [evq EXCEPT !["collab"] = Tail(@)]
           /\ IF RelHidden(e.path) THEN
                 /\ wpc' = Idle
                 /\ UNCHANGED <<file_hashes, lastWatch, unavail>>
              ELSE IF e.type = "moved" THEN
                 /\ wpc' = IF RelHidden(e.dest) THEN Idle ELSE PendingMove(e)
                 /\ UNCHANGED <<file_hashes, lastWatch, unavail>>
              ELSE IF e.isdir THEN
                 /\ wpc' = Pending(IF e.type = "created" THEN "mkdir" ELSE "delete", e)
                 /\ UNCHANGED <<file_hashes, lastWatch, unavail>>
              ELSE IF e.type = "deleted" THEN
                 /\ wpc' = Pending("delete", e)
                 /\ UNCHANGED <<file_hashes, lastWatch, unavail>>
              ELSE
                 /\ file_hashes' = [file_hashes EXCEPT !["collab"] = out.c]
                 /\ wpc' = IF out.changed THEN Pending("upload", e) ELSE Idle
                 /\ lastWatch' = WatchRecord("collab", t, c, e.path, out)
                 /\ unavail' = IF out.none
                               THEN unavail \cup {[who |-> "watcher", path |-> e.path,
                                                   asChanged |-> out.changed]}
                               ELSE unavail
    /\ UNCHANGED <<fs, sync_in_progress, phase, sent, userLog, rmRemovals>>
    /\ UNCHANGED syncVars /\ UNCHANGED ownerHist /\ UNCHANGED restVars /\ Undisturbed

\* upload_file without its first statement
SendsAnyway(flag) == FALSE

\* upload_file / upload_directory / delete_file, first statement:
\* if self.sync_in_progress: return
Suppressed(flag) == flag

WatchCheck ==
    /\ wpc.st = "check"
    /\ wpc' = IF Suppressed(sync_in_progress["collab"]) THEN After(wpc)
              ELSE IF wpc.req.kind = "contents"
              THEN After([wpc EXCEPT !.more = ContentsCalls(fs["collab"], wpc.req.path) \o @])
              ELSE [wpc EXCEPT !.st = "send"]
    /\ UNCHANGED <<fs, file_hashes, sync_in_progress, evq, phase, sent, userLog,
                   lastWatch, unavail, rmRemovals>>
    /\ UNCHANGED syncVars /\ UNCHANGED ownerHist /\ UNCHANGED restVars /\ Undisturbed

\* What requests.post carries: upload_file reads the file as it is now and
\* sends nothing when the path is gone or cannot be opened.
Outgoing(t, r) ==
    IF r.kind # "upload" THEN r
    ELSE IF IsFile(t, r.path) /\ t[r.path].ok THEN Request("upload", r.path, t[r.path].data)
    ELSE NoReq

\* The requests.post of upload_file / upload_directory / delete_file and the
\* owner's handler answering it.
WatchSend ==
    /\ wpc.st = "send"
    /\ LET r == Outgoing(fs["collab"], wpc.req)
           t == fs["owner"]
           res == OwnerHandle(t, file_hashes["owner"], r)
       IN  IF r = NoReq THEN
              /\ UNCHANGED <<fs, file_hashes, sync_in_progress, sent, rmRemovals>>
              /\ Undisturbed
           ELSE
              /\ fs' = [fs EXCEPT !["owner"] = res.t]
              /\ file_hashes' = [file_hashes EXCEPT !["owner"] = res.c]
              /\ sync_in_progress' =
                   [sync_in_progress EXCEPT !["owner"] = OwnerFlagAfter(@, t, r)]
              /\ sent' = sent \cup
                   {[kind |-> r.kind, path |-> r.path, cause |-> wpc.cause,
                     evCyc |-> wpc.cyc, sendCyc |-> cycle,
                     flag |-> sync_in_progress["collab"], status |-> res.status]}
              /\ rmRemovals' = rmRemovals + res.removed
              /\ IF res.t # t THEN Disturb ELSE Undisturbed
    /\ moveSent' = IF wpc.mv # 0 /\ Outgoing(fs["collab"], wpc.req) # NoReq
                   THEN Append(moveSent, [kind |-> wpc.req.kind, path |-> wpc.req.path,
                                          mv |-> wpc.mv])
                   ELSE moveSent
    /\ wpc' = After(wpc)
    /\ UNCHANGED <<evq, phase, userLog, lastWatch, unavail>>
    /\ UNCHANGED syncVars /\ UNCHANGED ownerHist /\ UNCHANGED joinVars
    /\ UNCHANGED threadVars /\ UNCHANGED <<fetchFails, trio, outer>>

\* ---------------------------------------------------------- download_file
\* download_file up to the end of its with-block: the GET, makedirs of the
\* parent and the write.  Any exception is caught and leaves the rest
\* undone; hashed says that the function goes on to record the digest.
DownloadWrite(tO, tL, p) ==
    LET r == HttpGet(tO, p)
        md == MakeDirs(tL, Parent(p))
    IN  IF r.status # 200 THEN [t |-> tL, hashed |-> FALSE]
        ELSE IF ~md.ok \/ ~CanWrite(md.t, p) THEN [t |-> md.t, hashed |-> FALSE]
        ELSE [t |-> [md.t EXCEPT ![p] = FileEnt(r.content)], hashed |-> TRUE]

RECURSIVE MkdirAll(_, _)
\* for directory in ...: os.makedirs(dir_path, exist_ok=True)
MkdirAll(t, S) ==
    IF S = {} THEN [ok |-> TRUE, t |-> t]
    ELSE LET d == CHOOSE x \in S : TRUE
             r == MakeDirs(t, d)
         IN  IF r.ok THEN MkdirAll(r.t, S \ {d}) ELSE [ok |-> FALSE, t |-> r.t]

RECURSIVE RmdirAll(_, _)
\* for directory in ...: if os.path.exists(dir_path): shutil.rmtree(dir_path)
RmdirAll(t, S) ==
    IF S = {} THEN [ok |-> TRUE, t |-> t]
    ELSE LET d == CHOOSE x \in S : TRUE
         IN  IF ~Exists(t, d) THEN RmdirAll(t, S \ {d})
             ELSE IF IsDir(t, d) THEN RmdirAll(RmTree(t, d), S \ {d})
             ELSE [ok |-> FALSE, t |-> t]

RECURSIVE RemoveAll(_, _, _)
\* for filename in ...: if os.path.exists(full_path): os.remove(full_path)
\* and the cache entry with it
RemoveAll(t, c, S) ==
    IF S = {} THEN [ok |-> TRUE, t |-> t, c |-> c]
    ELSE LET f == CHOOSE x \in S : TRUE
         IN  IF ~Exists(t, f) THEN RemoveAll(t, c, S \ {f})
             ELSE IF IsFile(t, f)
             THEN RemoveAll([t EXCEPT ![f] = NoEnt], [c EXCEPT ![f] = Absent], S \ {f})
             ELSE [ok |-> FALSE, t |-> t, c |-> c]

RECURSIVE DownloadAll(_, _, _, _)
\* for filename in server files: self.download_file(filename)
DownloadAll(tO, tL, c, S) ==
    IF S = {} THEN [t |-> tL, c |-> c]
    ELSE LET f == CHOOSE x \in S : TRUE
             w == DownloadWrite(tO, tL, f)
             c2 == IF w.hashed THEN [c EXCEPT ![f] = get_file_hash(w.t, f)] ELSE c
         IN  DownloadAll(tO, w.t, c2, S \ {f})

\* initial_sync, run by join_collaboration before the observer and the sync
\* thread exist.
InitialSync ==
    /\ phase = "joining"
    /\ LET structure == scan_files(fs["owner"])
           mk == MkdirAll(fs["collab"], structure.dirs)
           dl == DownloadAll(fs["owner"], mk.t, file_hashes["collab"], FileKeys(structure))
       IN  IF mk.ok THEN
              /\ fs' = [fs EXCEPT !["collab"] = dl.t]
              /\ file_hashes' = [file_hashes EXCEPT !["collab"] = dl.c]
              /\ phase' = "running"
              /\ UNCHANGED sync_in_progress
           ELSE
              /\ fs' = [fs EXCEPT !["collab"] = mk.t]
              /\ sync_in_progress' = [sync_in_progress EXCEPT !["collab"] = TRUE]
              /\ phase' = "failed"
              /\ UNCHANGED file_hashes
    /\ UNCHANGED <<evq, wpc, sent, userLog, lastWatch, unavail, rmRemovals>>
    /\ UNCHANGED syncVars /\ UNCHANGED ownerHist /\ UNCHANGED restVars /\ Undisturbed

\* ------------------------------------------------------- sync_client_files
NoCur == [path |-> Root, hashed |-> FALSE, rehash |-> FALSE]
FreshCycle == [wrote |-> FALSE, failed |-> FALSE]
collabRest == <<phase, wpc, sent, userLog, lastWatch, rmRemovals>>

\* Top of the loop: the stop signal and the flag are looked at, then
\* requests.get(.../get_structure) answers 200.
SyncFetch ==
    /\ phase = "running" /\ spc = "top"
    /\ ~stop_server_event /\ ~sync_in_progress["collab"]
    /\ cycle < MaxCycles
    /\ server_structure' = scan_files(fs["owner"])
    /\ spc' = "fetched"
    /\ thisCycle' = FreshCycle
    /\ UNCHANGED <<fs, file_hashes, sync_in_progress, evq, local_scan, todo, cur,
                   stop_server_event, cycle, unavail>>
    /\ UNCHANGED collabRest /\ UNCHANGED ownerHist /\ UNCHANGED restVars /\ Undisturbed

\* the except clause without stop_server_event.set()
ExceptWithoutSet(flag, stop) == [flag |-> FALSE, stop |-> stop, spc |-> "stopped"]

\* except requests.exceptions.RequestException, on a collaborator: the flag
\* is cleared, the stop signal set, and break leaves the loop.
OnRequestException(flag, stop) == [flag |-> FALSE, stop |-> TRUE, spc |-> "stopped"]

\* requests.get raises RequestException: the except clause of the loop.
SyncFetchFail ==
    /\ phase = "running" /\ spc = "top"
    /\ ~stop_server_event /\ ~sync_in_progress["collab"]
    /\ fetchFails < MaxFails
    /\ LET x == OnRequestException(sync_in_progress["collab"], stop_server_event)
       IN  /\ sync_in_progress' = [sync_in_progress EXCEPT !["collab"] = x.flag]
           /\ stop_server_event' = x.stop
           /\ spc' = x.spc
    /\ fetchFails' = fetchFails + 1
    /\ UNCHANGED <<fs, file_hashes, evq, server_structure, local_scan, todo, cur,
                   cycle, thisCycle, unavail>>
    /\ UNCHANGED collabRest /\ UNCHANGED ownerHist /\ UNCHANGED joinVars
    /\ UNCHANGED threadVars /\ UNCHANGED <<moveSent, trio, outer>> /\ Undisturbed

\* requests.get answers with a status other than 200: the body of the if
\* is skipped, sync_chat runs, and the loop sleeps.
SyncFetchNon200 ==
    /\ phase = "running" /\ spc = "top"
    /\ ~stop_server_event /\ ~sync_in_progress["collab"]
    /\ fetchFails < MaxFails
    /\ fetchFails' = fetchFails + 1
    /\ spc' = "sleep"
    /\ thisCycle' = FreshCycle
    /\ UNCHANGED <<fs, file_hashes, sync_in_progress, evq, server_structure, local_scan,
                   todo, cur, stop_server_event, cycle, unavail>>
    /\ UNCHANGED collabRest /\ UNCHANGED ownerHist /\ UNCHANGED joinVars
    /\ UNCHANGED threadVars /\ UNCHANGED <<moveSent, trio, outer>> /\ Undisturbed

\* local_files_info, local_dirs = self.scan_files()
SyncScan ==
    /\ spc = "fetched"
    /\ local_scan' = scan_files(fs["collab"])
    /\ spc' = "scanned"
    /\ UNCHANGED <<fs, file_hashes, sync_in_progress, evq, server_structure, todo, cur,
                   stop_server_event, cycle, thisCycle, unavail>>
    /\ UNCHANGED collabRest /\ UNCHANGED ownerHist /\ UNCHANGED restVars /\ Undisturbed

\* the cycle without line 669
BeginFlagKept(flag) == flag

\* line 669: self.sync_in_progress = True
BeginFlag(flag) == TRUE

\* self.sync_in_progress = True
SyncBegin ==
    /\ spc = "scanned"
    /\ sync_in_progress' = [sync_in_progress EXCEPT !["collab"] = BeginFlag(@)]
    /\ spc' = "mkdirs"
    /\ UNCHANGED <<fs, file_hashes, evq, server_structure, local_scan, todo, cur,
                   stop_server_event, cycle, thisCycle, unavail>>
    /\ UNCHANGED collabRest /\ UNCHANGED ownerHist /\ UNCHANGED restVars /\ Undisturbed

\* A step of the cycle that changes the local tree from t to t2; ok is
\* FALSE when the step raised something the loop does not catch, which
\* ends the thread where it stands.
LocalStep(t, t2, ok, next) ==
    /\ fs' = [fs EXCEPT !["collab"] = t2]
    /\ evq' = [evq EXCEPT !["collab"] = @ \o TreeEvents(t, t2, "sync", cycle)]
    /\ thisCycle' = [thisCycle EXCEPT !.wrote = @ \/ t2 # t]
    /\ spc' = IF ok THEN next ELSE "crashed"

\* Directories of the server that are missing locally are created.
SyncMkdirs ==
    /\ spc = "mkdirs"
    /\ LET t == fs["collab"]
           r == MkdirAll(t, server_structure.dirs \ local_scan.dirs)
       IN  LocalStep(t, r.t, r.ok, "rmdirs")
    /\ UNCHANGED <<file_hashes, sync_in_progress, server_structure, local_scan, todo, cur,
                   stop_server_event, cycle, unavail>>
    /\ UNCHANGED collabRest /\ UNCHANGED ownerHist /\ UNCHANGED restVars /\ Undisturbed

\* Local directories the server does not have are removed.
SyncRmdirs ==
    /\ spc = "rmdirs"
    /\ LET t == fs["collab"]
           r == RmdirAll(t, local_scan.dirs \ server_structure.dirs)
       IN  LocalStep(t, r.t, r.ok, "files")
    /\ todo' = IF spc' = "files" THEN FileKeys(server_structure) ELSE {}
    /\ UNCHANGED <<file_hashes, sync_in_progress, server_structure, local_scan, cur,
                   stop_server_event, cycle, unavail>>
    /\ UNCHANGED collabRest /\ UNCHANGED ownerHist /\ UNCHANGED restVars /\ Undisturbed

\* line 695, negated: server_info.get('hash') != local_info.get('hash')
DigestsMatch(a, b) == a.h = b.h

\* One turn of "for filename in server_files": the comparison and, for a
\* new or changed file, download_file up to its write.
SyncFile(f) ==
    /\ spc = "files" /\ f \in todo
    /\ LET t == fs["collab"]
           known == f \in FileKeys(local_scan)
           sv == server_structure.files[f]
           lc == local_scan.files[f]
           same == known /\ DigestsMatch(sv, lc)
           w == DownloadWrite(fs["owner"], t, f)
       IN  /\ unavail' = IF known /\ (sv.h = 0 \/ lc.h = 0)
                         THEN unavail \cup {[who |-> "reconcile", path |-> f,
                                             asChanged |-> ~same]}
                         ELSE unavail
           /\ IF same THEN
                 /\ todo' = todo \ {f}
                 /\ UNCHANGED <<fs, evq, cur, spc, thisCycle>>
              ELSE
                 /\ fs' = [fs EXCEPT !["collab"] = w.t]
                 /\ evq' = [evq EXCEPT !["collab"] =
                              @ \o TreeEvents(t, w.t, "sync", cycle)
                                \o (IF w.hashed THEN FileEvent(t, f, "sync", cycle)
                                    ELSE <<>>)]
                 /\ thisCycle' = [wrote |-> thisCycle.wrote \/ w.hashed \/ w.t # t,
                                  failed |-> thisCycle.failed \/ ~w.hashed]
                 /\ cur' = [path |-> f, hashed |-> w.hashed, rehash |-> known]
                 /\ spc' = "hash"
                 /\ UNCHANGED todo
    /\ UNCHANGED <<file_hashes, sync_in_progress, server_structure, local_scan,
                   stop_server_event, cycle>>
    /\ UNCHANGED collabRest /\ UNCHANGED ownerHist /\ UNCHANGED restVars /\ Undisturbed

\* The end of download_file (lines 744-746) and, for a file that was known
\* locally, lines 699-703: self.file_hashes[filename] = get_file_hash(...)
SyncHash ==
    /\ spc = "hash"
    /\ file_hashes' =
         IF cur.hashed \/ cur.rehash
         THEN [file_hashes EXCEPT !["collab"][cur.path] = get_file_hash(fs["collab"], cur.path)]
         ELSE file_hashes
    /\ todo' = todo \ {cur.path}
    /\ cur' = NoCur
    /\ spc' = "files"
    /\ UNCHANGED <<fs, sync_in_progress, evq, server_structure, local_scan,
                   stop_server_event, cycle, thisCycle, unavail>>
    /\ UNCHANGED collabRest /\ UNCHANGED ownerHist /\ UNCHANGED restVars /\ Undisturbed

\* Local files the server does not have are removed, with their cache entry.
SyncDeletes ==
    /\ spc = "files" /\ todo = {}
    /\ LET t == fs["collab"]
           r == RemoveAll(t, file_hashes["collab"],
                          FileKeys(local_scan) \ FileKeys(server_structure))
       IN  /\ LocalStep(t, r.t, r.ok, "end")
           /\ file_hashes' = [file_hashes EXCEPT !["collab"] = r.c]
    /\ UNCHANGED <<sync_in_progress, server_structure, local_scan, todo, cur,
                   stop_server_event, cycle, unavail>>
    /\ UNCHANGED collabRest /\ UNCHANGED ownerHist /\ UNCHANGED restVars /\ Undisturbed

\* self.sync_in_progress = False, then sync_chat
SyncEnd ==
    /\ spc = "end"
    /\ sync_in_progress' = [sync_in_progress EXCEPT !["collab"] = FALSE]
    /\ spc' = "sleep"
    /\ cycle' = cycle + 1
    /\ calm' = IF dirty THEN 0 ELSE calm + 1
    /\ dirty' = FALSE
    /\ UNCHANGED <<fs, file_hashes, evq, server_structure, local_scan, todo, cur,
                   stop_server_event, thisCycle, unavail>>
    /\ UNCHANGED collabRest /\ UNCHANGED ownerHist /\ UNCHANGED restVars

\* time.sleep(2) at the bottom of the loop
SyncSleep ==
    /\ spc = "sleep"
    /\ spc' = "top"
    /\ server_structure' = EmptyScan
    /\ local_scan' = EmptyScan
    /\ UNCHANGED <<fs, file_hashes, sync_in_progress, evq, todo, cur,
                   stop_server_event, cycle, thisCycle, unavail>>
    /\ UNCHANGED collabRest /\ UNCHANGED ownerHist /\ UNCHANGED restVars /\ Undisturbed

\* ------------------------------------------- edits in the collaborator's tree
LogEntry(op, p, n) == [op |-> op, path |-> p, n |-> n]

\* An edit by the collaborator's user, changing the local tree from t to t2
\* and queueing the events ev for the observer.
UserEdit(t2, ev, entry) ==
    /\ phase = "running" /\ ~stop_server_event
    /\ Len(userLog) < MaxEdits
    /\ fs' = [fs EXCEPT !["collab"] = t2]
    /\ evq' = [evq EXCEPT !["collab"] = @ \o ev]
    /\ userLog' = Append(userLog, entry)
    /\ Disturb
    /\ UNCHANGED <<file_hashes, sync_in_progress, phase, wpc, sent, lastWatch, unavail,
                   rmRemovals>>
    /\ UNCHANGED syncVars /\ UNCHANGED ownerHist /\ UNCHANGED restVars

UserWrite(p, b) ==
    LET t == fs["collab"]
    IN  /\ IsDir(t, Parent(p)) /\ CanWrite(t, p)
        /\ UserEdit([t EXCEPT ![p] = FileEnt(b)], FileEvent(t, p, "user", cycle),
                    LogEntry("write", p, b))

UserMkdir(p) ==
    LET t == fs["collab"]
    IN  /\ IsDir(t, Parent(p)) /\ ~Exists(t, p)
        /\ UserEdit([t EXCEPT ![p] = DirEnt],
                    <<Event("created", p, TRUE, "user", cycle)>>, LogEntry("mkdir", p, 0))

UserRemove(p) ==
    LET t == fs["collab"]
    IN  /\ IsFile(t, p)
        /\ UserEdit([t EXCEPT ![p] = NoEnt],
                    <<Event("deleted", p, FALSE, "user", cycle)>>, LogEntry("remove", p, 0))

\* rm -r of a directory: one deleted event per contained file, then the
\* directory's own.
UserRmtree(p) ==
    LET t == fs["collab"]
        n == Cardinality({q \in Paths : Under(q, p) /\ IsFile(t, q)})
    IN  /\ p # Root /\ IsDir(t, p)
        /\ UserEdit(RmTree(t, p), TreeEvents(t, RmTree(t, p), "user", cycle),
                    LogEntry("rmtree", p, n))

\* The path the one child of directory d has: d/b.txt.
Child(d) == IF d = "sub" THEN "sub/b.txt" ELSE "new/b.txt"
\* The directory names a directory can be renamed between.
MoveDirs == {"sub", "new"}

\* mv src dest in the collaborator's tree.  The observer reports a moved
\* event for src and, for a directory when subs is true, a moved event
\* for the file in it as well.
UserMove(src, dest, subs) ==
    LET t == fs["collab"]
        isdir == IsDir(t, src)
        t2 == [q \in Paths |->
                 IF q = dest THEN t[src]
                 ELSE IF isdir /\ q = Child(dest) THEN t[Child(src)]
                 ELSE IF q = src \/ Under(q, src) THEN NoEnt
                 ELSE t[q]]
        id == Len(userLog) + 1
        ev == <<MovedEvent(src, dest, isdir, cycle, id)>>
                \o (IF isdir /\ subs /\ IsFile(t, Child(src))
                    THEN <<MovedEvent(Child(src), Child(dest), FALSE, cycle, id + MaxEdits)>>
                    ELSE <<>>)
    IN  /\ Len(userLog) < MaxMoves
        /\ src # dest /\ Exists(t, src) /\ ~Exists(t, dest)
        /\ IsDir(t, Parent(dest)) /\ ~Under(dest, src)
        /\ isdir => (src \in MoveDirs /\ dest \in MoveDirs)
        /\ ~isdir => ~subs
        /\ UserEdit(t2, ev, [op |-> "move", path |-> src, n |-> 0, dest |-> dest,
                             isdir |-> isdir])

\* ------------------------------------------------------------------- Spec
\* The trees that hold entries (of E) at the paths of Plain only.
PlainTrees(E) ==
    {[p \in Paths |-> IF p \in Plain THEN f[p] ELSE NoEnt] : f \in [Plain -> E]}

OwnerTrees ==
    {t \in PlainTrees({NoEnt, DirEnt, FileEnt(1), LockedEnt(1)}) :
        /\ WellFormed(t)
        /\ \A p \in Paths : (t[p].kind = "dir") => p \in DirNames
        /\ \A p \in DirNames : t[p].kind # "file"
        /\ \A p \in Paths : ~t[p].ok => p = "a.txt"
        /\ \A p \in Paths \ Plain : t[p] = NoEnt}

LocalTrees ==
    {t \in PlainTrees({NoEnt, DirEnt, FileEnt(MaxByte), LockedEnt(MaxByte)}) :
        /\ WellFormed(t)
        /\ \A p \in Paths : (t[p].kind = "dir") => p \in DirNames
        /\ \A p \in DirNames : t[p].kind # "file"
        /\ t["verify"] = NoEnt
        /\ \A p \in Paths : ~t[p].ok => p = "a.txt"
        /\ \A p \in Paths \ Plain : t[p] = NoEnt}

\* ------------------------------------------- one owner, two collaborators
Collabs == {"c1", "c2"}
Parties == {"owner"} \cup Collabs

\* The three sessions once start_collaboration has run on the owner's
\* tree tO and both collaborators have joined from an empty folder
\* (initial_sync done, observers and sync threads started).
TrioStart(tO) ==
    LET s == scan_files(tO)
        mk == MkdirAll(EmptyTree, s.dirs)
        dl == DownloadAll(tO, mk.t, EmptyCache, FileKeys(s))
    IN  [fs |-> [n \in Parties |-> IF n = "owner" THEN tO ELSE dl.t],
         file_hashes |-> [n \in Parties |-> IF n = "owner" THEN s.files ELSE dl.c],
         sync_in_progress |-> [k \in Collabs |-> FALSE],
         evq |-> [n \in Parties |-> <<>>],
         spc |-> [k \in Collabs |-> "top"],
         server_structure |-> [k \in Collabs |-> EmptyScan],
         local_scan |-> [k \in Collabs |-> EmptyScan],
         todo |-> [k \in Collabs |-> {}],
         cur |-> [k \in Collabs |-> [path |-> Root, hashed |-> FALSE, rehash |-> FALSE]],
         wpc |-> [k \in Collabs |-> Idle],
         edited |-> Root,
         xfer |-> FALSE]

\* No second collaborator is modelled.
NoTrio == TrioStart(EmptyTree)

\* ------------------------------------------------- outside the root
\* Places outside collaboration_path a request's path string can name:
\* an absolute path, and a path leaving the root through "..".
OuterPaths == {"/abs", "../x"}

\* The root directory exists, nothing outside it is looked at, and the
\* cache has no key naming a place outside.
NoOuter ==
    [root |-> TRUE,
     ent |-> [q \in OuterPaths |-> NoEnt],
     was |-> [q \in OuterPaths |-> NoEnt],
     c |-> [q \in OuterPaths |-> Absent]]

\* No upload handler is between opening and writing its file.
NoWrite == [st |-> "idle", path |-> Root, data |-> 0, old |-> NoEnt]

\* join_collaboration has not run, or has failed: the fields as __init__
\* left them.
NotJoined ==
    /\ server_url = ""
    /\ collaboration_path = ""
    /\ rootMade = FALSE
    /\ joinLog = <<>>

\* The fields after a /verify answered 200 with the tag CollabCX.
Joined ==
    /\ server_url = "url"
    /\ collaboration_path = "name"
    /\ rootMade = TRUE
    /\ joinLog = <<"ok">>

\* The rest of the state right after construction (CollabCX.__init__) and
\* the /verify exchange of join_collaboration.
FreshPair ==
    /\ sync_in_progress = [n \in Nodes |-> FALSE]
    /\ evq = [n \in Nodes |-> <<>>]
    /\ wpc = Idle
    /\ spc = "top"
    /\ server_structure = EmptyScan
    /\ local_scan = EmptyScan
    /\ todo = {}
    /\ cur = NoCur
    /\ stop_server_event = FALSE
    /\ sent = {}
    /\ cycle = 0
    /\ userLog = <<>>
    /\ calm = 0
    /\ dirty = FALSE
    /\ thisCycle = FreshCycle
    /\ lastWatch = NoWatch
    /\ unavail = {}
    /\ lastReq = [req |-> NoReq, n |-> 0, changed |-> FALSE]
    /\ rmRemovals = 0
    /\ ops = 0
    /\ fetchFails = 0
    /\ lock = "free"
    /\ chat_history = 0
    /\ hpc = NoWrite
    /\ seen = {}
    /\ access = {}
    /\ moveSent = <<>>

Fresh ==
    /\ FreshPair
    /\ trio = NoTrio
    /\ outer = NoOuter

\* start_collaboration has run on the owner (file_hashes, _ = scan_files());
\* the collaborator is inside join_collaboration, /verify answered.
Joining(tO, tL) ==
    /\ fs = [n \in Nodes |-> IF n = "owner" THEN tO ELSE tL]
    /\ file_hashes = [n \in Nodes |->
                        IF n = "owner" THEN scan_files(tO).files ELSE EmptyCache]
    /\ joinedEmpty = (tL = EmptyTree)
    /\ phase = "joining"
    /\ Joined

Init ==
    /\ \E tO \in OwnerTrees, tL \in LocalTrees : Joining(tO, tL)
    /\ Fresh

\* The paths the modelled user edits.
EditPaths == Plain \ RouteNames
UserWrites == \E p \in EditPaths, b \in Bytes : UserWrite(p, b)
UserMkdirs == \E p \in DirNames : UserMkdir(p)
UserRemoves == \E p \in EditPaths : UserRemove(p)
UserRmtrees == \E p \in DirNames : UserRmtree(p)
SyncFiles == \E f \in Paths : SyncFile(f)

\* The join, the reconcile loop while the owner answers, and the watcher.
Session ==
    \/ InitialSync
    \/ WatchDispatch
    \/ WatchCheck
    \/ WatchSend
    \/ SyncFetch
    \/ SyncScan
    \/ SyncBegin
    \/ SyncMkdirs
    \/ SyncRmdirs
    \/ SyncFiles
    \/ SyncHash
    \/ SyncDeletes
    \/ SyncEnd
    \/ SyncSleep

Next ==
    \/ Session
    \/ SyncFetchFail

\* The session without local edits: the join, the reconcile loop and the
\* watcher reacting to what the loop writes.
Spec == Init /\ [][Next]_vars

\* Owner trees the collaborator's user edits a mirror of.
EditTrees ==
    {t \in OwnerTrees :
        /\ t["a.txt"] = FileEnt(1)
        /\ t["verify"] = NoEnt
        /\ t["sub"].kind = "dir" => t["sub/b.txt"] = FileEnt(1)}

InitEdit ==
    /\ \E tO \in EditTrees : Joining(tO, EmptyTree)
    /\ Fresh

NextEdit ==
    \/ Session
    \/ UserWrites
    \/ UserMkdirs
    \/ UserRemoves
    \/ UserRmtrees

\* The session with a user editing the collaborator's tree.
SpecEdit == InitEdit /\ [][NextEdit]_vars

\* The user rewrites the one file every tree of EditTrees holds.
UserRewrites == \E b \in Bytes : UserWrite("a.txt", b)

NextFail ==
    \/ Session
    \/ SyncFetchFail
    \/ SyncFetchNon200
    \/ UserRewrites

\* The session with fetches of the owner's structure that fail and a user
\* writing files in the collaborator's tree.
SpecFail == InitEdit /\ [][NextFail]_vars

\* The paths the modelled user moves things between.
MovePaths == EditPaths \cup Spare
UserMoves == \E src \in MovePaths, dest \in MovePaths, subs \in BOOLEAN : UserMove(src, dest, subs)

NextMove ==
    \/ Session
    \/ UserMoves

\* The session with a user renaming files and directories in the
\* collaborator's tree.
SpecMove == InitEdit /\ [][NextMove]_vars

\* ----------------------------------- the sessions of three parties
\* Events the model lets wait in one observer's queue.
MaxQueue == 1

\* The variables of the model of one owner and one collaborator.
pairVars ==
    <<fs, file_hashes, sync_in_progress, evq, phase, wpc, spc, server_structure,
      local_scan, todo, cur, stop_server_event, sent, cycle, userLog, calm, dirty,
      thisCycle, lastWatch, unavail, lastReq, rmRemovals, ops, joinedEmpty,
      server_url, collaboration_path, rootMade, joinLog, fetchFails, lock,
      chat_history, hpc, seen, access, moveSent, outer>>

\* The files of the three trees; the trees hold no directory, so the
\* directory loops of a cycle (lines 671-684) have nothing to do.
TrioPaths == {"a.txt", "verify"}
TrioTrees ==
    {t \in PlainTrees({NoEnt, FileEnt(1)}) :
        /\ t["a.txt"] = FileEnt(1)
        /\ \A p \in Paths \ TrioPaths : t[p] = NoEnt}

\* The one edit: the user of party n writes byte b to file p, which held
\* other bytes or did not exist.
TrioEdit(n, p, b) ==
    LET t == trio.fs[n]
    IN  /\ trio.edited = Root
        /\ CanWrite(t, p) /\ t[p] # FileEnt(b)
        /\ trio' = [trio EXCEPT !.fs[n][p] = FileEnt(b),
                                !.evq[n] = @ \o FileEvent(t, p, "user", 0),
                                !.edited = p,
                                !.xfer = FALSE]
        /\ UNCHANGED pairVars

\* sync_client_files of collaborator k, lines 652-659: the flag is clear
\* and get_structure answers 200.
TrioFetch(k) ==
    /\ trio.spc[k] = "top" /\ ~trio.sync_in_progress[k]
    /\ trio' = [trio EXCEPT !.server_structure[k] = scan_files(trio.fs["owner"]),
                            !.spc[k] = "fetched",
                            !.xfer = FALSE]
    /\ UNCHANGED pairVars

\* lines 666-669: scan_files, then self.sync_in_progress = True
TrioBegin(k) ==
    /\ trio.spc[k] = "fetched"
    /\ trio' = [trio EXCEPT !.local_scan[k] = scan_files(trio.fs[k]),
                            !.sync_in_progress[k] = BeginFlag(@),
                            !.todo[k] = FileKeys(trio.server_structure[k]),
                            !.spc[k] = "files",
                            !.xfer = FALSE]
    /\ UNCHANGED pairVars

\* One turn of "for filename in server_files" (lines 687-698) up to the
\* write of download_file.
TrioFile(k, f) ==
    /\ trio.spc[k] = "files" /\ f \in trio.todo[k]
    /\ Len(trio.evq[k]) < MaxQueue
    /\ LET t == trio.fs[k]
           known == f \in FileKeys(trio.local_scan[k])
           same == known /\ DigestsMatch(trio.server_structure[k].files[f],
                                         trio.local_scan[k].files[f])
           w == DownloadWrite(trio.fs["owner"], t, f)
       IN  trio' = IF same
                   THEN [trio EXCEPT !.todo[k] = @ \ {f}, !.xfer = FALSE]
                   ELSE [trio EXCEPT
                           !.fs[k] = w.t,
                           !.evq[k] = @ \o (IF w.hashed THEN FileEvent(t, f, "sync", 0)
                                            ELSE <<>>),
                           !.cur[k] = [path |-> f, hashed |-> w.hashed, rehash |-> known],
                           !.spc[k] = "hash",
                           !.xfer = (f = trio.edited)]
    /\ UNCHANGED pairVars

\* lines 744-746 and 699-703: the digest of the downloaded file is stored.
TrioHash(k) ==
    /\ trio.spc[k] = "hash"
    /\ LET c == trio.cur[k]
       IN  trio' = [trio EXCEPT
                      !.file_hashes[k] =
                         IF c.hashed \/ c.rehash
                         THEN [@ EXCEPT ![c.path] = get_file_hash(trio.fs[k], c.path)]
                         ELSE @,
                      !.todo[k] = @ \ {c.path},
                      !.cur[k] = [path |-> Root, hashed |-> FALSE, rehash |-> FALSE],
                      !.spc[k] = "files",
                      !.xfer = FALSE]
    /\ UNCHANGED pairVars

\* lines 705-716 and 730: local files the owner lacks are removed, the flag
\* is cleared, the loop sleeps.
TrioEnd(k) ==
    /\ trio.spc[k] = "files" /\ trio.todo[k] = {}
    /\ Len(trio.evq[k]) < MaxQueue
    /\ LET t == trio.fs[k]
           r == RemoveAll(t, trio.file_hashes[k],
                          FileKeys(trio.local_scan[k]) \ FileKeys(trio.server_structure[k]))
       IN  trio' = [trio EXCEPT
                      !.fs[k] = r.t,
                      !.file_hashes[k] = r.c,
                      !.evq[k] = @ \o TreeEvents(t, r.t, "sync", 0),
                      !.sync_in_progress[k] = IF r.ok THEN FALSE ELSE @,
                      !.spc[k] = IF r.ok THEN "top" ELSE "crashed",
                      !.xfer = FALSE]
    /\ UNCHANGED pairVars

\* FileWatcher.on_any_event on collaborator k, up to the call of
\* upload_file / delete_file.
TrioDispatch(k) ==
    /\ trio.wpc[k].st = "idle" /\ trio.evq[k] # <<>>
    /\ LET e == Head(trio.evq[k])
           out == OnFileModified(trio.fs[k], trio.file_hashes[k], e.path)
       IN  trio' = IF e.type = "deleted"
                   THEN [trio EXCEPT !.evq[k] = Tail(@),
                                     !.wpc[k] = Pending("delete", e),
                                     !.xfer = FALSE]
                   ELSE [trio EXCEPT !.evq[k] = Tail(@),
                                     !.file_hashes[k] = out.c,
                                     !.wpc[k] = IF out.changed THEN Pending("upload", e)
                                                ELSE Idle,
                                     !.xfer = FALSE]
    /\ UNCHANGED pairVars

\* upload_file / delete_file of collaborator k and the owner's handler.
TrioSend(k) ==
    /\ trio.wpc[k].st = "check"
    /\ Len(trio.evq["owner"]) < MaxQueue
    /\ LET r == Outgoing(trio.fs[k], trio.wpc[k].req)
           t == trio.fs["owner"]
           res == OwnerHandle(t, trio.file_hashes["owner"], r)
       IN  trio' = IF Suppressed(trio.sync_in_progress[k]) \/ r = NoReq
                   THEN [trio EXCEPT !.wpc[k] = Idle, !.xfer = FALSE]
                   ELSE [trio EXCEPT
                           !.fs["owner"] = res.t,
                           !.file_hashes["owner"] = res.c,
                           !.evq["owner"] = @ \o HandlerEvents(t, res, r),
                           !.wpc[k] = Idle,
                           !.xfer = (r.kind = "upload" /\ r.path = trio.edited)]
    /\ UNCHANGED pairVars

\* FileWatcher.on_any_event on the owner (the is_owner branches).
TrioOwnerWatch ==
    /\ trio.evq["owner"] # <<>>
    /\ LET e == Head(trio.evq["owner"])
           out == OnFileModified(trio.fs["owner"], trio.file_hashes["owner"], e.path)
       IN  trio' = [trio EXCEPT
                      !.evq["owner"] = Tail(@),
                      !.file_hashes["owner"] =
                         IF e.type = "deleted" THEN [@ EXCEPT ![e.path] = Absent]
                         ELSE out.c,
                      !.xfer = FALSE]
    /\ UNCHANGED pairVars

\* The sync thread and the observer thread of collaborator k.
TrioCycle(k) ==
    \/ TrioFetch(k)
    \/ TrioBegin(k)
    \/ \E f \in TrioPaths : TrioFile(k, f)
    \/ TrioHash(k)
    \/ TrioEnd(k)
TrioWatcher(k) == TrioDispatch(k) \/ TrioSend(k)
TrioEdits == \E n \in Parties, p \in TrioPaths : TrioEdit(n, p, MaxByte)

InitTrio ==
    /\ fs = [n \in Nodes |-> EmptyTree]
    /\ file_hashes = [n \in Nodes |-> EmptyCache]
    /\ joinedEmpty = TRUE
    /\ phase = "none"
    /\ NotJoined
    /\ FreshPair
    /\ outer = NoOuter
    /\ \E tO \in TrioTrees : trio = TrioStart(tO)

NextTrio ==
    \/ TrioEdits
    \/ \E k \in Collabs : TrioCycle(k)
    \/ \E k \in Collabs : TrioWatcher(k)
    \/ TrioOwnerWatch

\* One owner and two collaborators, every thread scheduled fairly.
SpecTrio ==
    /\ InitTrio /\ [][NextTrio]_vars
    /\ \A k \in Collabs : WF_vars(TrioCycle(k)) /\ WF_vars(TrioWatcher(k))
    /\ WF_vars(TrioOwnerWatch)

\* ------------------------------------- the path strings of requests
\* What a request's filename / dirname field may carry.
WirePaths == {"", "/abs", "../x", "a.txt", "sub", "sub/b.txt"}
WireRequests ==
    {Request("upload", w, b) : w \in WirePaths, b \in Bytes}
      \cup {Request("mkdir", w, 0) : w \in WirePaths}
      \cup {Request("delete", w, 0) : w \in WirePaths}

\* os.path.join(self.collaboration_path, w): an empty string gives the
\* root itself, an absolute path replaces the root, ".." leaves it.
JoinedPath(w) ==
    IF w = "" THEN "root" ELSE IF w \in OuterPaths THEN "outside" ELSE "inside"

\* The handlers of upload_file, create_directory and delete_file for a
\* path that lands outside the root, on a host where the owner's process
\* may write there.
OuterHandle(o, r) ==
    LET q == r.path
        e == o.ent[q]
    IN  IF r.kind = "upload"
        THEN IF e.kind = "dir" THEN o
             ELSE [o EXCEPT !.ent[q] = FileEnt(r.data),
                            !.c[q] = HashStr(Md5(r.data))]
        ELSE IF r.kind = "mkdir"
        THEN IF e.kind = "file" THEN o ELSE [o EXCEPT !.ent[q] = DirEnt]
        ELSE IF e.kind = "none" THEN o
        ELSE IF e.kind = "file" THEN [o EXCEPT !.ent[q] = NoEnt]
        ELSE [o EXCEPT !.ent[q] = NoEnt, !.c[q] = Absent]

\* One request handled by the owner's Flask thread, whatever path string
\* it carries.
WireRequest(r) ==
    /\ ops < MaxOps
    /\ LET t == fs["owner"]
           c == file_hashes["owner"]
           where == JoinedPath(r.path)
           res == OwnerHandle(t, c, r)
       IN  IF where = "inside" THEN
              \* os.makedirs of the parent (upload) or of the path (mkdir)
              \* makes the root again when it is gone
              /\ fs' = [fs EXCEPT !["owner"] = res.t]
              /\ file_hashes' = [file_hashes EXCEPT !["owner"] = res.c]
              /\ evq' = [evq EXCEPT !["owner"] = @ \o HandlerEvents(t, res, r)]
              /\ outer' = [outer EXCEPT !.root = @ \/ r.kind # "delete"]
           ELSE IF where = "outside" THEN
              /\ outer' = OuterHandle(outer, r)
              /\ UNCHANGED <<fs, file_hashes, evq>>
           ELSE IF r.kind = "delete" /\ outer.root THEN
              \* os.path.isdir(root): shutil.rmtree(root); no cache key
              \* starts with os.sep or is empty, so none is purged
              /\ fs' = [fs EXCEPT !["owner"] = EmptyTree]
              /\ evq' = [evq EXCEPT !["owner"] = @ \o TreeEvents(t, EmptyTree, "remote", 0)]
              /\ outer' = [outer EXCEPT !.root = FALSE]
              /\ UNCHANGED file_hashes
           ELSE
              \* file.save on a directory raises (500); makedirs of the
              \* root makes it when it is gone
              /\ outer' = [outer EXCEPT !.root = @ \/ r.kind # "delete"]
              /\ UNCHANGED <<fs, file_hashes, evq>>
    \* a handler that set the flag has cleared it when it returns
    /\ sync_in_progress' =
         [sync_in_progress EXCEPT !["owner"] =
            IF JoinedPath(r.path) = "inside" THEN OwnerFlagAfter(@, fs["owner"], r)
            ELSE FALSE]
    /\ ops' = ops + 1
    /\ UNCHANGED <<lastWatch, rmRemovals, lastReq, joinedEmpty, trio>>
    /\ UNCHANGED <<phase, wpc, sent, userLog, unavail, calm, dirty, moveSent>>
    /\ UNCHANGED syncVars
    /\ UNCHANGED joinVars /\ UNCHANGED threadVars /\ UNCHANGED fetchFails

WireRequests1 == \E r \in WireRequests : WireRequest(r)

\* The owner's session with what lies outside its root: a file or nothing
\* at each outside place.
InitWire ==
    /\ \E tO \in OwnerTrees :
         /\ fs = [n \in Nodes |-> IF n = "owner" THEN tO ELSE EmptyTree]
         /\ file_hashes = [n \in Nodes |->
                             IF n = "owner" THEN scan_files(tO).files ELSE EmptyCache]
    /\ \E o \in [OuterPaths -> {NoEnt, FileEnt(1)}] :
         outer = [NoOuter EXCEPT !.ent = o, !.was = o]
    /\ joinedEmpty = TRUE
    /\ phase = "none"
    /\ NotJoined
    /\ FreshPair
    /\ trio = NoTrio

NextWire == WireRequests1

\* The owner's handlers under requests carrying any path string.
SpecWire == InitWire /\ [][NextWire]_vars

\* --------------------------------------------- the basic variant (main.py)
\* main.py has no watcher, no digest cache and no sync_in_progress: the
\* owner serves /list_files and the files, the collaborator runs
\* sync_client_files.  Its fields are held in the variables of the same
\* names; server_structure and local_scan hold the two sets of paths.

\* list_files, and the os.walk of sync_client_files: every regular file.
list_files(t) == {p \in Paths : IsFile(t, p)}

\* main.py download_file: only RequestException is caught, so a failing
\* makedirs or open ends the thread (ok is FALSE).
BasicDownloadWrite(tO, tL, p) ==
    LET r == HttpGet(tO, p)
        md == MakeDirs(tL, Parent(p))
    IN  IF r.status # 200 THEN [t |-> tL, ok |-> TRUE]
        ELSE IF ~md.ok \/ ~CanWrite(md.t, p) THEN [t |-> md.t, ok |-> FALSE]
        ELSE [t |-> [md.t EXCEPT ![p] = FileEnt(r.content)], ok |-> TRUE]

\* line 244: for file in server_files - local_files
ToDownload(server_files, local_files) == server_files \ local_files

basicRest ==
    <<file_hashes, sync_in_progress, evq, phase, wpc, cur, sent, thisCycle, lastWatch,
      unavail, lastReq, rmRemovals, joinedEmpty, lock, chat_history, hpc, seen, access,
      moveSent, trio, outer, server_url, collaboration_path, joinLog>>

\* lines 231-241: the loop condition, GET /list_files answering 200, and
\* the walk of the local folder.
BasicFetch ==
    /\ phase = "running" /\ spc = "top"
    /\ ~stop_server_event
    /\ cycle < MaxCycles
    /\ server_structure' = list_files(fs["owner"])
    /\ local_scan' = list_files(fs["collab"])
    /\ todo' = ToDownload(list_files(fs["owner"]), list_files(fs["collab"]))
    /\ spc' = "files"
    /\ UNCHANGED <<fs, stop_server_event, cycle, userLog, calm, dirty, ops, rootMade,
                   fetchFails>>
    /\ UNCHANGED basicRest

\* lines 244-245: self.download_file(file)
BasicDownload(f) ==
    /\ spc = "files" /\ f \in todo
    /\ LET w == BasicDownloadWrite(fs["owner"], fs["collab"], f)
       IN  /\ fs' = [fs EXCEPT !["collab"] = w.t]
           /\ spc' = IF w.ok THEN "files" ELSE "crashed"
    /\ todo' = todo \ {f}
    /\ UNCHANGED <<server_structure, local_scan, stop_server_event, cycle, userLog, calm,
                   dirty, ops, rootMade, fetchFails>>
    /\ UNCHANGED basicRest

\* lines 248-252: os.remove of the local files the owner does not list,
\* then sync_chat; the cycle is complete.
BasicDeletes ==
    /\ spc = "files" /\ todo = {}
    /\ LET gone == local_scan \ server_structure
           ok == \A f \in gone : IsFile(fs["collab"], f)
       IN  /\ fs' = [fs EXCEPT !["collab"] =
                       [p \in Paths |-> IF ok /\ p \in gone THEN NoEnt ELSE @[p]]]
           /\ spc' = IF ok THEN "sleep" ELSE "crashed"
    /\ cycle' = cycle + 1
    /\ calm' = IF dirty THEN 0 ELSE calm + 1
    /\ dirty' = FALSE
    /\ UNCHANGED <<server_structure, local_scan, todo, stop_server_event, userLog, ops,
                   rootMade, fetchFails>>
    /\ UNCHANGED basicRest

\* line 261: time.sleep(2), back to the loop condition
BasicSleep ==
    /\ spc = "sleep"
    /\ spc' = IF stop_server_event THEN "stopped" ELSE "top"
    /\ server_structure' = EmptyScan
    /\ local_scan' = EmptyScan
    /\ UNCHANGED <<fs, todo, stop_server_event, cycle, userLog, calm, dirty, ops, rootMade,
                   fetchFails>>
    /\ UNCHANGED basicRest

\* the except clause without shutil.rmtree
BasicExceptKeepsFolder(t, made) == [t |-> t, made |-> made, stop |-> TRUE]

\* lines 254-259 on a collaborator: shutil.rmtree(self.collaboration_path,
\* ignore_errors=True), self.stop_server_event.set(), back_to_main()
BasicOnRequestException(t, made) == [t |-> EmptyTree, made |-> FALSE, stop |-> TRUE]

\* requests.get(.../list_files) raises a RequestException.
BasicFetchFail ==
    /\ phase = "running" /\ spc = "top"
    /\ ~stop_server_event
    /\ fetchFails < MaxFails
    /\ LET x == BasicOnRequestException(fs["collab"], rootMade)
       IN  /\ fs' = [fs EXCEPT !["collab"] = x.t]
           /\ rootMade' = x.made
           /\ stop_server_event' = x.stop
    /\ fetchFails' = fetchFails + 1
    /\ spc' = "sleep"
    /\ UNCHANGED <<server_structure, local_scan, todo, cycle, userLog, calm, dirty, ops>>
    /\ UNCHANGED basicRest

\* The owner's user writes byte b to file p of the shared folder.
BasicOwnerWrite(p, b) ==
    LET t == fs["owner"]
    IN  /\ ops < MaxOps
        /\ IsDir(t, Parent(p)) /\ CanWrite(t, p) /\ t[p] # FileEnt(b)
        /\ fs' = [fs EXCEPT !["owner"] = [t EXCEPT ![p] = FileEnt(b)]]
        /\ userLog' = Append(userLog, [op |-> IF IsFile(t, p) THEN "update" ELSE "create",
                                       path |-> p, n |-> b])
        /\ ops' = ops + 1
        /\ Disturb
        /\ UNCHANGED <<spc, server_structure, local_scan, todo, stop_server_event, cycle,
                       rootMade, fetchFails>>
        /\ UNCHANGED basicRest

BasicDownloads == \E f \in Paths : BasicDownload(f)
BasicOwnerWrites == \E p \in EditPaths, b \in Bytes : BasicOwnerWrite(p, b)

\* join_collaboration of main.py has run: the folder exists, with whatever
\* it held, and the sync thread is started.
InitBasic ==
    /\ \E tO \in OwnerTrees, tL \in LocalTrees :
         /\ fs = [n \in Nodes |-> IF n = "owner" THEN tO ELSE tL]
         /\ joinedEmpty = (tL = EmptyTree)
    /\ file_hashes = [n \in Nodes |-> EmptyCache]
    /\ phase = "running"
    /\ Joined
    /\ Fresh

NextBasic ==
    \/ BasicFetch
    \/ BasicDownloads
    \/ BasicDeletes
    \/ BasicSleep
    \/ BasicFetchFail
    \/ BasicOwnerWrites

\* The basic variant: one owner, one collaborator.
SpecBasic == InitBasic /\ [][NextBasic]_vars

\* ------------------------------------------------------------ scheduling
\* The thread of join_collaboration and sync_client_files, and the
\* observer's thread: each runs on while it has a step to take.
SyncThread ==
    \/ InitialSync \/ SyncFetch \/ SyncScan \/ SyncBegin \/ SyncMkdirs \/ SyncRmdirs
    \/ SyncFiles \/ SyncHash \/ SyncDeletes \/ SyncEnd \/ SyncSleep
WatchThread == WatchDispatch \/ WatchCheck \/ WatchSend

\* Folders join_collaboration may find under os.getcwd(): those of
\* LocalTrees, and those holding a regular file under a directory's name.
FoundTrees ==
    {t \in PlainTrees({NoEnt, DirEnt, FileEnt(MaxByte)}) :
        /\ WellFormed(t)
        /\ \A p \in Paths : (t[p].kind = "dir") => p \in DirNames
        /\ t["verify"] = NoEnt
        /\ \A p \in Paths \ Plain : t[p] = NoEnt}

InitLive ==
    /\ \E tO \in OwnerTrees, tL \in FoundTrees : Joining(tO, tL)
    /\ Fresh

\* The session of Spec, joined from any folder found, with both threads
\* scheduled fairly.
SpecLive == InitLive /\ [][Next]_vars /\ WF_vars(SyncThread) /\ WF_vars(WatchThread)

\* ------------------------------------------------------------ the stop signal
\* a loop that tests the signal before every step
StopExaminedAnywhere(pc) == pc \notin {"stopped", "crashed"}

\* line 652: while not self.stop_server_event.is_set() -- the one place
\* sync_client_files reads the signal.
StopExamined(pc) == pc = "top"

\* The while condition finds the signal set: the loop ends.
SyncExit ==
    /\ phase = "running" /\ StopExamined(spc)
    /\ stop_server_event
    /\ spc' = "stopped"
    /\ UNCHANGED <<fs, file_hashes, sync_in_progress, evq, server_structure, local_scan,
                   todo, cur, stop_server_event, cycle, thisCycle, unavail>>
    /\ UNCHANGED collabRest /\ UNCHANGED ownerHist /\ UNCHANGED restVars /\ Undisturbed

\* self.stop_server_event.set() by another thread (stop_collaboration,
\* back_to_main), at any point of the loop.
StopSet ==
    /\ phase = "running" /\ ~stop_server_event
    /\ stop_server_event' = TRUE
    /\ UNCHANGED <<fs, file_hashes, sync_in_progress, evq, spc, server_structure,
                   local_scan, todo, cur, cycle, thisCycle, unavail>>
    /\ UNCHANGED collabRest /\ UNCHANGED ownerHist /\ UNCHANGED restVars /\ Undisturbed

NextStop ==
    \/ Session
    \/ StopSet
    \/ SyncExit

\* The session with the stop signal set from outside the loop.
SpecStop == Init /\ [][NextStop]_vars

\* ------------------------------------------------------------ the owner alone
collabVars ==
    <<phase, wpc, sent, userLog, unavail, joinedEmpty, calm, dirty, moveSent, trio, outer>>

\* A request of some collaborator, handled by the owner's Flask thread.
OwnerRequest(r) ==
    /\ ops < MaxOps
    /\ LET t == fs["owner"]
           c == file_hashes["owner"]
           res == OwnerHandle(t, c, r)
       IN  /\ fs' = [fs EXCEPT !["owner"] = res.t]
           /\ file_hashes' = [file_hashes EXCEPT !["owner"] = res.c]
           /\ sync_in_progress' =
                [sync_in_progress EXCEPT !["owner"] = OwnerFlagAfter(@, t, r)]
           /\ evq' = [evq EXCEPT !["owner"] = @ \o HandlerEvents(t, res, r)]
           /\ rmRemovals' = rmRemovals + res.removed
           /\ lastReq' = IF lastReq.req = r
                         THEN [lastReq EXCEPT !.n = 2]
                         ELSE [req |-> r, n |-> 1, changed |-> res.t # t \/ res.c # c]
    /\ ops' = ops + 1
    /\ UNCHANGED <<lastWatch>>
    /\ UNCHANGED syncVars /\ UNCHANGED collabVars /\ UNCHANGED restVars

\* An edit made in the owner's own tree, from t to t2, with its events ev.
OwnerEdit(t2, ev) ==
    /\ ops < MaxOps
    /\ fs' = [fs EXCEPT !["owner"] = t2]
    /\ evq' = [evq EXCEPT !["owner"] = @ \o ev]
    /\ lastReq' = [req |-> NoReq, n |-> 0, changed |-> FALSE]
    /\ ops' = ops + 1
    /\ UNCHANGED <<file_hashes, sync_in_progress, lastWatch, rmRemovals>>
    /\ UNCHANGED syncVars /\ UNCHANGED collabVars /\ UNCHANGED restVars

OwnerUserWrite(p, b) ==
    LET t == fs["owner"]
    IN  /\ IsDir(t, Parent(p)) /\ CanWrite(t, p)
        /\ OwnerEdit([t EXCEPT ![p] = FileEnt(b)], FileEvent(t, p, "user", 0))

OwnerUserRemove(p) ==
    LET t == fs["owner"]
    IN  /\ IsFile(t, p)
        /\ OwnerEdit([t EXCEPT ![p] = NoEnt], <<Event("deleted", p, FALSE, "user", 0)>>)

OwnerUserRmtree(p) ==
    LET t == fs["owner"]
    IN  /\ p # Root /\ IsDir(t, p)
        /\ OwnerEdit(RmTree(t, p), TreeEvents(t, RmTree(t, p), "user", 0))

\* FileWatcher.on_any_event on the owner (the is_owner branches).
OwnerWatch ==
    /\ evq["owner"] # <<>>
    /\ LET e == Head(evq["owner"])
           t == fs["owner"]
           c == file_hashes["owner"]
           out == OnFileModified(t, c, e.path)
           cached == c[e.path].kind # "absent"
       IN  /\ evq' = [evq EXCEPT !["owner"] = Tail(@)]
           /\ IF RelHidden(e.path) \/ e.isdir THEN
                 UNCHANGED <<file_hashes, lastWatch, rmRemovals>>
              ELSE IF e.type = "deleted" THEN
                 /\ file_hashes' = [file_hashes EXCEPT !["owner"][e.path] = Absent]
                 /\ rmRemovals' = rmRemovals + (IF cached THEN 1 ELSE 0)
                 /\ UNCHANGED lastWatch
              ELSE
                 /\ file_hashes' = [file_hashes EXCEPT !["owner"] = out.c]
                 /\ lastWatch' = WatchRecord("owner", t, c, e.path, out)
                 /\ UNCHANGED rmRemovals
    /\ lastReq' = [req |-> NoReq, n |-> 0, changed |-> FALSE]
    /\ UNCHANGED <<fs, sync_in_progress, ops>>
    /\ UNCHANGED syncVars /\ UNCHANGED collabVars /\ UNCHANGED restVars

\* start_collaboration has run; no collaborator is modelled.
InitOwner ==
    /\ \E tO \in OwnerTrees :
         /\ fs = [n \in Nodes |-> IF n = "owner" THEN tO ELSE EmptyTree]
         /\ file_hashes = [n \in Nodes |->
                             IF n = "owner" THEN scan_files(tO).files ELSE EmptyCache]
    /\ joinedEmpty = TRUE
    /\ phase = "none"
    /\ NotJoined
    /\ Fresh

OwnerRequests == \E r \in Requests : OwnerRequest(r)
OwnerUserWrites == \E p \in Plain, b \in Bytes : OwnerUserWrite(p, b)
OwnerUserRemoves == \E p \in Plain : OwnerUserRemove(p)
OwnerUserRmtrees == \E p \in DirNames : OwnerUserRmtree(p)

NextOwner ==
    \/ OwnerRequests
    \/ OwnerUserWrites
    \/ OwnerUserRemoves
    \/ OwnerUserRmtrees
    \/ OwnerWatch

\* The owner's session: its handlers, its user and its watcher.
SpecOwner == InitOwner /\ [][NextOwner]_vars

\* ------------------------------------------------------------ the join
\* What requests.get(server_url + "/verify") can come to: 200 with the tag
\* CollabCX, 200 with another body, another status, a RequestException.
VerifyOutcomes == {"ok", "tag", "status", "refused"}

\* the test of line 394 without its comparison of the tag
VerifyStatusOnly(o) == o \in {"ok", "tag"}

\* response.status_code == 200 and response.json().get("status") == "CollabCX"
VerifyAccepted(o) == o = "ok"

\* join_collaboration up to its call of initial_sync.
JoinCollaboration(o) ==
    /\ phase = "main"
    /\ Len(joinLog) < MaxJoins
    /\ joinLog' = Append(joinLog, o)
    /\ IF VerifyAccepted(o) THEN
          /\ collaboration_path' = "name"
          /\ rootMade' = TRUE
          /\ server_url' = "url"
          /\ phase' = "joining"
       ELSE
          UNCHANGED <<collaboration_path, rootMade, server_url, phase>>
    /\ UNCHANGED <<fs, file_hashes, sync_in_progress, evq, wpc, sent, userLog, lastWatch,
                   unavail, rmRemovals, fetchFails, moveSent, trio, outer>>
    /\ UNCHANGED syncVars /\ UNCHANGED ownerHist /\ UNCHANGED threadVars /\ Undisturbed

\* The owner serves its tree; the collaborator's application shows its
\* main screen, the directory it would join into existing or not.
InitJoin ==
    /\ \E tO \in OwnerTrees, made \in BOOLEAN :
         \E tL \in (IF made THEN LocalTrees ELSE {EmptyTree}) :
            /\ fs = [n \in Nodes |-> IF n = "owner" THEN tO ELSE tL]
            /\ file_hashes = [n \in Nodes |->
                                IF n = "owner" THEN scan_files(tO).files ELSE EmptyCache]
            /\ joinedEmpty = (tL = EmptyTree)
            /\ rootMade = made
    /\ server_url = ""
    /\ collaboration_path = ""
    /\ joinLog = <<>>
    /\ phase = "main"
    /\ Fresh

JoinCollaborations == \E o \in VerifyOutcomes : JoinCollaboration(o)

NextJoin ==
    \/ JoinCollaborations
    \/ Session

\* The collaborator from its main screen on: joins that fail, a join that
\* succeeds, and the session after it.
SpecJoin == InitJoin /\ [][NextJoin]_vars

\* ---------------------------------------------- the owner's Flask threads
\* app.run(port=5000, threaded=True): every request has its own thread,
\* so a GET can run between two statements of an upload handler.  A file
\* opened with "wb" and not yet written holds no bytes: data 0.
Truncated == FileEnt(0)

\* One access to sync_in_progress or file_hashes, with the holder of
\* self.lock at that moment.
Access(by, what) == [by |-> by, var |-> what, holder |-> lock]

\* POST /upload_file up to file.save having opened full_path for writing;
\* the whole handler when makedirs or the open raises.
UploadOpen(p, b) ==
    /\ hpc.st = "idle" /\ ops < MaxOps
    /\ LET t == fs["owner"]
           md == MakeDirs(t, Parent(p))
           opened == md.ok /\ CanWrite(md.t, p)
           t2 == IF opened THEN [md.t EXCEPT ![p] = Truncated] ELSE md.t
       IN  /\ fs' = [fs EXCEPT !["owner"] = t2]
           /\ sync_in_progress' = [sync_in_progress EXCEPT !["owner"] = opened]
           /\ hpc' = IF opened THEN [st |-> "writing", path |-> p, data |-> b, old |-> t[p]]
                     ELSE NoWrite
           /\ evq' = [evq EXCEPT !["owner"] =
                        @ \o TreeEvents(t, md.t, "remote", 0)
                          \o (IF opened THEN FileEvent(t, p, "remote", 0) ELSE <<>>)]
    /\ access' = access \cup {Access("upload_file", "sync_in_progress")}
    /\ ops' = ops + 1
    /\ lastReq' = [req |-> NoReq, n |-> 0, changed |-> FALSE]
    /\ UNCHANGED <<file_hashes, lastWatch, rmRemovals, lock, chat_history, seen>>
    /\ UNCHANGED syncVars /\ UNCHANGED collabVars /\ UNCHANGED joinVars
    /\ UNCHANGED fetchFails

\* The rest of the handler: file.save writes the bytes, the flag is
\* cleared and the digest recorded.
UploadWrite ==
    /\ hpc.st = "writing"
    /\ LET t == fs["owner"]
           p == hpc.path
           t2 == [t EXCEPT ![p] = FileEnt(hpc.data)]
       IN  /\ fs' = [fs EXCEPT !["owner"] = t2]
           /\ file_hashes' = [file_hashes EXCEPT !["owner"][p] = get_file_hash(t2, p)]
           /\ evq' = [evq EXCEPT !["owner"] = @ \o FileEvent(t, p, "remote", 0)]
    /\ sync_in_progress' = [sync_in_progress EXCEPT !["owner"] = FALSE]
    /\ access' = access \cup {Access("upload_file", "sync_in_progress"),
                               Access("upload_file", "file_hashes")}
    /\ hpc' = NoWrite
    /\ lastReq' = [req |-> NoReq, n |-> 0, changed |-> FALSE]
    /\ UNCHANGED <<lastWatch, rmRemovals, ops, lock, chat_history, seen>>
    /\ UNCHANGED syncVars /\ UNCHANGED collabVars /\ UNCHANGED joinVars
    /\ UNCHANGED fetchFails

\* What a reader got for the path an upload handler is writing, next to
\* what it would have got before the write and after it.
Observation(reader, got, before, after) ==
    [reader |-> reader, path |-> hpc.path, got |-> got, before |-> before, after |-> after]

readFrame ==
    <<fs, file_hashes, sync_in_progress, evq, lastWatch, rmRemovals, ops, lock,
      chat_history, hpc, access, lastReq, fetchFails>>

\* GET /<path:filename> for the file an upload handler is writing.
ReadGet ==
    /\ hpc.st = "writing"
    /\ LET t == fs["owner"]
           p == hpc.path
       IN  seen' = seen \cup
             {Observation("get_file", HttpGet(t, p),
                          HttpGet([t EXCEPT ![p] = hpc.old], p),
                          HttpGet([t EXCEPT ![p] = FileEnt(hpc.data)], p))}
    /\ UNCHANGED readFrame
    /\ UNCHANGED syncVars /\ UNCHANGED collabVars /\ UNCHANGED joinVars

\* GET /get_structure while an upload handler is writing: the entry of
\* scan_files for that file.
ReadStructure ==
    /\ hpc.st = "writing"
    /\ LET t == fs["owner"]
           p == hpc.path
       IN  seen' = seen \cup
             {Observation("get_structure", scan_files(t).files[p],
                          scan_files([t EXCEPT ![p] = hpc.old]).files[p],
                          scan_files([t EXCEPT ![p] = FileEnt(hpc.data)]).files[p])}
    /\ UNCHANGED readFrame
    /\ UNCHANGED syncVars /\ UNCHANGED collabVars /\ UNCHANGED joinVars

chatFrame ==
    <<fs, file_hashes, sync_in_progress, evq, lastWatch, rmRemovals, hpc, seen, access,
      lastReq, fetchFails>>

\* POST /chat: with self.lock
ChatEnter ==
    /\ lock = "free" /\ ops < MaxOps
    /\ lock' = "chat"
    /\ ops' = ops + 1
    /\ UNCHANGED chat_history /\ UNCHANGED chatFrame
    /\ UNCHANGED syncVars /\ UNCHANGED collabVars /\ UNCHANGED joinVars

\* self.chat_history.append(message), and the lock released
ChatLeave ==
    /\ lock = "chat"
    /\ chat_history' = chat_history + 1
    /\ lock' = "free"
    /\ UNCHANGED ops /\ UNCHANGED chatFrame
    /\ UNCHANGED syncVars /\ UNCHANGED collabVars /\ UNCHANGED joinVars

\* POST /create_directory handled by another thread of the server, from
\* its first statement to its last.
ThreadMkdir(p) ==
    /\ ops < MaxOps
    /\ LET t == fs["owner"]
           res == OwnerMkdir(t, file_hashes["owner"], p)
       IN  /\ fs' = [fs EXCEPT !["owner"] = res.t]
           /\ evq' = [evq EXCEPT !["owner"] = @ \o TreeEvents(t, res.t, "remote", 0)]
    /\ sync_in_progress' = [sync_in_progress EXCEPT !["owner"] = FALSE]
    /\ access' = access \cup {Access("create_directory", "sync_in_progress")}
    /\ ops' = ops + 1
    /\ lastReq' = [req |-> NoReq, n |-> 0, changed |-> FALSE]
    /\ UNCHANGED <<file_hashes, lastWatch, rmRemovals, lock, chat_history, hpc, seen>>
    /\ UNCHANGED syncVars /\ UNCHANGED collabVars /\ UNCHANGED joinVars
    /\ UNCHANGED fetchFails

\* POST /delete_file of an existing directory up to the end of
\* shutil.rmtree (line 605); of a file or a missing path, the whole handler.
DeleteRemove(p) ==
    /\ hpc.st = "idle" /\ ops < MaxOps
    /\ LET t == fs["owner"]
           isdir == p # Root /\ IsDir(t, p)
           t2 == IF isdir THEN RmTree(t, p)
                 ELSE IF IsFile(t, p) THEN [t EXCEPT ![p] = NoEnt]
                 ELSE t
       IN  /\ fs' = [fs EXCEPT !["owner"] = t2]
           /\ evq' = [evq EXCEPT !["owner"] = @ \o TreeEvents(t, t2, "remote", 0)]
           /\ sync_in_progress' =
                [sync_in_progress EXCEPT !["owner"] = IF isdir THEN TRUE
                                                       ELSE IF Exists(t, p) THEN FALSE
                                                       ELSE @]
           /\ hpc' = IF isdir THEN [st |-> "purging", path |-> p, data |-> 0, old |-> t[p]]
                     ELSE NoWrite
           /\ access' = IF Exists(t, p)
                        THEN access \cup {Access("delete_file", "sync_in_progress")}
                        ELSE access
    /\ ops' = ops + 1
    /\ lastReq' = [req |-> NoReq, n |-> 0, changed |-> FALSE]
    /\ UNCHANGED <<file_hashes, lastWatch, rmRemovals, lock, chat_history, seen>>
    /\ UNCHANGED syncVars /\ UNCHANGED collabVars /\ UNCHANGED joinVars
    /\ UNCHANGED fetchFails

\* The rest of the directory branch: the keys under the directory are
\* deleted from file_hashes (lines 609-612) and the flag is cleared.
DeletePurge ==
    /\ hpc.st = "purging"
    /\ LET c == file_hashes["owner"]
           keys == {k \in Paths : c[k].kind # "absent" /\ (Under(k, hpc.path) \/ k = hpc.path)}
       IN  /\ file_hashes' = [file_hashes EXCEPT !["owner"] =
                                [k \in Paths |-> IF k \in keys THEN Absent ELSE c[k]]]
           /\ rmRemovals' = rmRemovals + Cardinality(keys)
    /\ sync_in_progress' = [sync_in_progress EXCEPT !["owner"] = FALSE]
    /\ access' = access \cup {Access("delete_file", "sync_in_progress"),
                               Access("delete_file", "file_hashes")}
    /\ hpc' = NoWrite
    /\ lastReq' = [req |-> NoReq, n |-> 0, changed |-> FALSE]
    /\ UNCHANGED <<fs, evq, lastWatch, ops, lock, chat_history, seen>>
    /\ UNCHANGED syncVars /\ UNCHANGED collabVars /\ UNCHANGED joinVars
    /\ UNCHANGED fetchFails

UploadOpens == \E p \in EditPaths, b \in Bytes : UploadOpen(p, b)
ThreadMkdirs == \E p \in DirNames : ThreadMkdir(p)
DeleteRemoves == \E p \in EditPaths : DeleteRemove(p)

NextThreads ==
    \/ UploadOpens
    \/ UploadWrite
    \/ ReadGet
    \/ ReadStructure
    \/ ThreadMkdirs
    \/ DeleteRemoves
    \/ DeletePurge
    \/ ChatEnter
    \/ ChatLeave
    \/ OwnerWatch

\* The owner's server threads: uploads statement by statement, readers and
\* the chat endpoint beside them, and the owner's watcher.
SpecThreads == InitOwner /\ [][NextThreads]_vars

\* ------------------------------------------------------------ scan_files alone
\* Every tree a directory can hold over the universe of paths: any path a
\* regular file or a directory, dotted names included.
ScanTrees == {t \in [Paths -> {NoEnt, DirEnt, FileEnt(1)}] : WellFormed(t)}

InitScan ==
    /\ \E tO \in ScanTrees :
         /\ fs = [n \in Nodes |-> IF n = "owner" THEN tO ELSE EmptyTree]
         /\ file_hashes = [n \in Nodes |->
                             IF n = "owner" THEN scan_files(tO).files ELSE EmptyCache]
    /\ joinedEmpty = TRUE
    /\ phase = "none"
    /\ NotJoined
    /\ Fresh

\* GET /get_structure: the handler's scan_files() result, as the requester
\* receives it.
GetStructure ==
    /\ phase = "none" /\ spc = "top"
    /\ server_structure' = scan_files(fs["owner"])
    /\ spc' = "fetched"
    /\ UNCHANGED <<fs, file_hashes, sync_in_progress, evq, phase, wpc, local_scan, todo,
                   cur, stop_server_event, sent, cycle, userLog, calm, dirty, thisCycle,
                   lastWatch, unavail, lastReq, rmRemovals, ops, joinedEmpty>>
    /\ UNCHANGED restVars

NextScan == GetStructure

\* One scan of an arbitrary tree.
SpecScan == InitScan /\ [][NextScan]_vars

\* ================================================================== claims
Local == fs["collab"]
Owner == fs["owner"]
InCycle == spc \in {"fetched", "scanned", "mkdirs", "rmdirs", "files", "hash", "end"}
WatcherQuiet == evq["collab"] = <<>> /\ wpc = Idle

\* scan_files on the collaborator reports the owner's files, digests and
\* directories.
ScanEq ==
    LET o == scan_files(Owner)
        l == scan_files(Local)
    IN  /\ FileKeys(l) = FileKeys(o)
        /\ \A p \in FileKeys(o) : l.files[p].h = o.files[p].h
        /\ l.dirs = o.dirs

\* Every file the owner lists is answered with status 200.
AllServed == \A p \in FileKeys(scan_files(Owner)) : HttpGet(Owner, p).status = 200

\* C1: with a static owner tree and a collaborator that joined empty, once
\* initial_sync and MaxCycles reconcile cycles have run (every request
\* answered 200), the collaborator's scan equals the owner's.
C1_Convergence ==
    (/\ joinedEmpty /\ phase = "running"
     /\ userLog = <<>> /\ sent = {}
     /\ AllServed
     /\ cycle = MaxCycles /\ ~InCycle)
      => ScanEq

\* C2: an upload caused by an event of a file that download_file wrote in
\* a reconcile cycle is never sent before that cycle has ended.
C2_NoEchoInCycle ==
    \A r \in sent :
       (r.kind = "upload" /\ r.cause = "sync") => r.sendCyc > r.evCyc

\* C2 witness: the watcher did send an upload for a file the cycle wrote,
\* after the cycle.
C2_Witness ==
    \E r \in sent : r.kind = "upload" /\ r.cause = "sync" /\ r.sendCyc > r.evCyc

\* C3: no request of the watcher is sent while sync_in_progress is true.
C3_NoSendWhileSyncing == \A r \in sent : ~r.flag

\* The local tree mirrors the snapshot the cycle fetched.
Mirrors ==
    /\ \A p \in FileKeys(server_structure) :
          IsFile(Local, p) /\ IsFile(Owner, p) /\ Local[p].data = Owner[p].data
    /\ \A d \in server_structure.dirs : IsDir(Local, d)
    /\ \A p \in Paths :
          Exists(Local, p) => p \in FileKeys(server_structure) \cup server_structure.dirs

\* C4: when a cycle has completed with nothing changed from outside and
\* every download_file run to its end, the local tree holds the snapshot's
\* files with the owner's bytes, its directories, and nothing else.
C4_CycleMirrors ==
    (spc = "sleep" /\ calm >= 1 /\ ~thisCycle.failed) => Mirrors

\* C5: a cycle that follows a completed cycle, with nothing changed from
\* outside since that one began, changes nothing in the local tree.
C5_SecondCycleIdle ==
    (InCycle /\ calm >= 1 /\ ~dirty) => ~thisCycle.wrote

\* C6: handling the same request twice leaves the owner's tree and digest
\* cache as handling it once does, and the second answer is a success when
\* the first was.
C6_HandlersIdempotent ==
    \A r \in Requests :
       LET one == OwnerHandle(Owner, file_hashes["owner"], r)
           two == OwnerHandle(one.t, one.c, r)
       IN  /\ two.t = one.t
           /\ two.c = one.c
           /\ one.status = 200 => two.status = 200

\* C6 witness: the owner has handled one request twice in a row, and the
\* first handling changed its tree or cache.
C6_Witness == lastReq.n = 2 /\ lastReq.changed

\* C7: a created/modified event for a file whose bytes are those its cache
\* entry was recorded for produces no push and leaves the cache unchanged.
C7_NoOpSuppressed ==
    lastWatch.same => (~lastWatch.changed /\ ~lastWatch.cacheTouched)

\* C8: once the collaborator's user has created directory sub and then
\* file sub/b.txt and the watcher has handled every event, the owner has
\* answered 200 to create-directory sub and to upload sub/b.txt.
C8_NestedCreateReachesOwner ==
    (/\ \E b \in Bytes :
          userLog = <<LogEntry("mkdir", "sub", 0), LogEntry("write", "sub/b.txt", b)>>
     /\ WatcherQuiet)
      => /\ \E r \in sent : r.kind = "mkdir" /\ r.path = "sub" /\ r.status = 200
         /\ \E r \in sent : r.kind = "upload" /\ r.path = "sub/b.txt" /\ r.status = 200

\* C9: once a directory holding n files has been deleted on the
\* collaborator (no reconcile cycle running) and every event is handled,
\* exactly one delete request was sent and n + 1 cache entries were removed.
C9_OneRecursiveDelete ==
    (/\ Len(userLog) = 1 /\ userLog[1].op = "rmtree"
     /\ cycle = 0 /\ spc = "top"
     /\ WatcherQuiet)
      => /\ Cardinality({r \in sent : r.kind = "delete"}) = 1
         /\ rmRemovals = userLog[1].n + 1

\* C10: every comparison that involved an unavailable digest treated the
\* file as changed.
C10_UnavailableMeansChanged == \A u \in unavail : u.asChanged

\* C11: the scan lists exactly the regular files and the directories none
\* of whose path components starts with a dot (empty directories too).
C11_ScanExact ==
    (phase = "none" /\ spc = "fetched") =>
       /\ FileKeys(server_structure) = {p \in Paths \ Dotted : IsFile(Owner, p)}
       /\ server_structure.dirs = {p \in Paths \ Dotted : IsDir(Owner, p)}

\* C12: once the collaborator's user has written one file (the only edit)
\* and the watcher has nothing left to handle, the owner holds the file
\* with the bytes written.
C12_EditReachesOwner ==
    (/\ Len(userLog) = 1 /\ userLog[1].op = "write"
     /\ WatcherQuiet)
      => Owner[userLog[1].path] = FileEnt(userLog[1].n)

\* C13: the reconcile loop stops the session only after at least two of
\* its fetches of the owner's structure have failed.
C13_SingleFailureRetries == stop_server_event => fetchFails >= 2

\* C14: once the loop has concluded that the owner ended the session,
\* sync_in_progress is false and the stop signal is set; the step that
\* concludes it and every later step leave the local tree and the number
\* of reconcile cycles as they were, and the loop stays stopped.
C14_EndIsTerminal ==
    /\ [](spc = "stopped" => (~sync_in_progress["collab"] /\ stop_server_event))
    /\ [][spc' = "stopped" =>
            (fs'["collab"] = fs["collab"] /\ cycle' = cycle /\ ~InCycle)]_vars
    /\ [][spc = "stopped" => spc' = "stopped"]_vars

\* C14 witness: the loop has stopped after a reconcile cycle, the
\* collaborator's tree holding the files it mirrored.
C14_Witness ==
    /\ spc = "stopped" /\ stop_server_event /\ cycle >= 1
    /\ IsFile(Local, "a.txt")

\* C15: no step of a reconcile cycle ends the sync_client_files thread.
C15_LoopSurvives == spc # "crashed"

\* C16: a GET of a path the owner's scan lists as a (readable) file is
\* answered 200 with the file's bytes, and a GET of a path that is no file
\* is answered 404.
C16_GetServesFiles ==
    \A p \in Paths :
       /\ (p \in FileKeys(scan_files(Owner)) /\ Owner[p].ok)
             => HttpGet(Owner, p) = [status |-> 200, content |-> Owner[p].data]
       /\ ~IsFile(Owner, p) => HttpGet(Owner, p).status = 404

\* C17: right after the owner has answered a delete request with success,
\* the path is absent from its tree and its cache holds no entry for the
\* path or for anything under it.
C17_DeletePurges ==
    (lastReq.req.kind = "delete" /\ lastReq.n >= 1) =>
       LET p == lastReq.req.path
       IN  /\ ~Exists(Owner, p)
           /\ \A k \in Paths : (k = p \/ Under(k, p)) => file_hashes["owner"][k] = Absent

\* C18: a join_collaboration call whose /verify is not answered 200 with
\* the tag CollabCX changes neither server_url nor collaboration_path,
\* creates no directory and starts nothing; and as long as no join has
\* succeeded, no initial sync, watcher or reconcile step takes place.
C18_FailedJoinChangesNothing ==
    /\ [][(joinLog' # joinLog /\ joinLog'[Len(joinLog')] # "ok") =>
            UNCHANGED <<server_url, collaboration_path, rootMade, phase, fs, file_hashes,
                        sync_in_progress, evq, wpc, spc, cycle, sent>>]_vars
    /\ [][(\A i \in 1..Len(joinLog') : joinLog'[i] # "ok") =>
            UNCHANGED <<server_url, collaboration_path, rootMade, phase, fs, file_hashes,
                        sync_in_progress, evq, wpc, spc, cycle, sent>>]_vars

\* C18 witness: a join has failed on a /verify answered 200 with a foreign
\* body, where the owner had files to fetch, and the fields are as
\* __init__ left them.
C18_Witness ==
    /\ joinLog # <<>> /\ joinLog[1] = "tag"
    /\ phase = "main" /\ server_url = "" /\ collaboration_path = "" /\ ~rootMade
    /\ IsFile(Owner, "a.txt")

\* C19: whatever a reader gets for a file that an upload handler is
\* writing is what it would have got before the write or after it.
C19_WritesAtomic == \A o \in seen : o.got \in {o.before, o.after}

\* C20: every access of a handler to sync_in_progress or file_hashes is
\* made by a thread that holds self.lock.
C20_AccessUnderLock == \A a \in access : a.holder = a.by

\* C22: a file the collaborator's user has created (the only edit) is
\* still in the local tree as long as no upload of it has been sent.
C22_NewFileSurvives ==
    (/\ Len(userLog) = 1 /\ userLog[1].op = "write"
     /\ ~\E r \in sent : r.kind = "upload" /\ r.path = userLog[1].path)
      => IsFile(Local, userLog[1].path)

\* C23: no delete request is sent for a path that the reconcile cycle
\* removed from the local tree.
C23_NoDeleteEcho == \A r \in sent : ~(r.kind = "delete" /\ r.cause = "sync")

\* C24: every step of the reconcile loop that changes the local tree is
\* taken with sync_in_progress true before and after it, and the flag is
\* false whenever the loop is between two cycles.
C24_CycleHoldsFlag ==
    /\ [][(/\ phase = "running" /\ userLog' = userLog
            /\ fs'["collab"] # fs["collab"])
            => (sync_in_progress["collab"] /\ sync_in_progress'["collab"])]_vars
    /\ []((phase = "running" /\ spc \in {"sleep", "top"}) => ~sync_in_progress["collab"])

\* C24 witness: a cycle that wrote the local tree has finished and the
\* flag is false.
C24_Witness ==
    /\ spc = "sleep" /\ thisCycle.wrote /\ cycle >= 1
    /\ ~sync_in_progress["collab"]

\* The step is the collaborator's watcher taking the next event.
Dispatching ==
    /\ wpc.st = "idle" /\ evq["collab"] # <<>>
    /\ Len(evq'["collab"]) < Len(evq["collab"])
NextEvent == Head(evq["collab"])

\* C25: handling an event for a hidden path, or while sync_in_progress is
\* true, leaves the file_hashes cache unchanged.
C25_DiscardedLeavesCache ==
    [][(Dispatching /\ (RelHidden(NextEvent.path) \/ sync_in_progress["collab"]))
         => file_hashes'["collab"] = file_hashes["collab"]]_vars

C27_DeletedPurgesAndPushes ==
    [][(/\ Dispatching
        /\ ~NextEvent.isdir /\ NextEvent.type = "deleted"
        /\ ~RelHidden(NextEvent.path))
         => /\ file_hashes'["collab"][NextEvent.path] = Absent
            /\ wpc' = Pending("delete", NextEvent)]_vars

\* C21: while an upload handler of the owner is between opening its file
\* and having written it, sync_in_progress is true.
C21_FlagDuringWrite == hpc.st = "writing" => sync_in_progress["owner"]

\* C30: when the owner's delete handler has removed a directory from
\* disk, the cache holds no entry for a path under it.
C30_PurgeBeforeRemove ==
    hpc.st = "purging" =>
       \A k \in Paths : Under(k, hpc.path) => file_hashes["owner"][k] = Absent

\* C28: among the requests a moved-event handler has sent, the delete of
\* the source precedes every upload and create-directory, and for a moved
\* directory the create-directory precedes the upload of every file in it.
C28_MoveOrder ==
    \A i, j \in 1..Len(moveSent) :
       (moveSent[i].mv = moveSent[j].mv) =>
          /\ (moveSent[i].kind = "delete" /\ moveSent[j].kind \in {"upload", "mkdir"})
                => i < j
          /\ (/\ moveSent[i].kind = "mkdir" /\ moveSent[j].kind = "upload"
              /\ Under(moveSent[j].path, moveSent[i].path))
                => i < j

\* C28 witness: directory sub was renamed to new, and the handler has sent
\* the delete of sub, the create-directory of new and the upload of the
\* file in it.
C28_Witness ==
    \E i, j, k \in 1..Len(moveSent) :
       /\ i < j /\ j < k
       /\ moveSent[i].kind = "delete" /\ moveSent[i].path = "sub"
       /\ moveSent[j].kind = "mkdir" /\ moveSent[j].path = "new"
       /\ moveSent[k].kind = "upload" /\ moveSent[k].path = "new/b.txt"
       /\ moveSent[i].mv = moveSent[j].mv /\ moveSent[j].mv = moveSent[k].mv

\* C29: once the one move of a file has been handled by the watcher,
\* the delete of the source was sent exactly if the upload of the
\* destination was.
C29_MoveAllOrNothing ==
    (/\ Len(userLog) = 1 /\ userLog[1].op = "move" /\ ~userLog[1].isdir
     /\ WatcherQuiet)
      => ((\E i \in 1..Len(moveSent) :
              moveSent[i].kind = "delete" /\ moveSent[i].path = userLog[1].path)
          <=> (\E i \in 1..Len(moveSent) :
              moveSent[i].kind = "upload" /\ moveSent[i].path = userLog[1].dest))

\* C31: when the owner's session has just started, the cache entry of every
\* non-hidden file of the tree is the digest get_file_hash returns for it,
\* so the watcher's comparison finds an unchanged file unchanged.
C31_CacheHoldsDigests ==
    ops = 0 =>
       \A p \in Paths :
          (IsFile(fs["owner"], p) /\ ~RelHidden(p)) =>
             /\ file_hashes["owner"][p] = get_file_hash(fs["owner"], p)
             /\ ~HashChanged(get_file_hash(fs["owner"], p),
                             CacheGet(file_hashes["owner"], p))

\* The steps of a reconcile cycle after its fetch.
CycleStep ==
    \/ SyncScan \/ SyncBegin \/ SyncMkdirs \/ SyncRmdirs
    \/ SyncFiles \/ SyncHash \/ SyncDeletes \/ SyncEnd
MidCycle == {"fetched", "scanned", "mkdirs", "rmdirs", "files", "hash", "end"}

\* C32: the loop leaves only from the top of a cycle; with the stop signal
\* set the top of the cycle starts nothing; and a cycle under way keeps
\* its next step whether or not the signal is set.
C32_StopOnlyAtTop ==
    [][/\ (spc' = "stopped" /\ spc # "stopped") => spc = "top"
       /\ (stop_server_event /\ spc = "top") => spc' \in {"top", "stopped"}
       /\ (stop_server_event /\ spc \in MidCycle) => ENABLED CycleStep]_vars

\* C32 witness: the signal was set while a cycle was writing, and the
\* cycle has come to its end all the same.
C32_Witness ==
    stop_server_event /\ spc = "end" /\ thisCycle.wrote

\* C33: whenever sync_in_progress is true, on either side, it is false
\* again later.
C33_FlagEventuallyCleared ==
    /\ sync_in_progress["collab"] ~> ~sync_in_progress["collab"]
    /\ sync_in_progress["owner"] ~> ~sync_in_progress["owner"]

\* The three trees hold the same thing at the edited path.
TrioSame == \A n \in Parties : trio.fs[n][trio.edited] = trio.fs["owner"][trio.edited]

\* C34: with one owner and two collaborators, after the one edit the
\* system comes to a point from which the three trees hold the same bytes
\* for the edited file and no upload or download of it is sent.
C34_EditSettles ==
    <>[](trio.edited # Root => (TrioSame /\ ~trio.xfer))

\* C35: whatever path strings the requests handled so far carried, the
\* root directory exists and every place outside it is as it was.
C35_StaysInsideRoot ==
    outer.root /\ outer.ent = outer.was

\* C36: in the basic variant, once the owner has changed the bytes of a
\* file that exists on both sides and a whole cycle has run after that,
\* the collaborator's copy holds the new bytes.
C36_UpdateIsDownloaded ==
    (/\ Len(userLog) = 1 /\ userLog[1].op = "update"
     /\ calm >= 1 /\ spc = "sleep")
      => fs["collab"][userLog[1].path] = FileEnt(userLog[1].n)

\* C37: in the basic variant, the step in which the fetch of the file
\* list fails leaves the collaborator's folder removed with all it held
\* and the stop signal set, and once the signal is set no step changes
\* the collaborator's tree or completes a cycle.
C37_FailureRemovesFolder ==
    [][/\ (fetchFails' # fetchFails)
            => (fs'["collab"] = EmptyTree /\ ~rootMade' /\ stop_server_event')
       /\ stop_server_event
            => (fs'["collab"] = fs["collab"] /\ cycle' = cycle /\ stop_server_event')]_vars

\* C37 witness: the fetch failed when the folder held files, and the loop
\* has ended.
C37_Witness ==
    /\ fetchFails = 1 /\ spc = "stopped" /\ cycle >= 1
    /\ fs["collab"] = EmptyTree /\ ~rootMade

====
